---- MODULE Spec2Model ----
(***************************************************************************)
(* Batch orchestration of the call-analysis pipeline:                      *)
(*   - AudioDownloadService (src/lib/services/audio-download.ts, the       *)
(*     current class, lines 237-548): token cache, recording lookup with   *)
(*     refresh-on-401, chunked downloadBatch;                              *)
(*   - AssemblyAIService (src/lib/services/assemblyai.ts): upload, create, *)
(*     poll with wall-clock budget, chunked transcribeBatch.               *)
(* Every await of the code is one suspension point of the model: a worker  *)
(* sits in the state named after the request it awaits, and the action     *)
(* that answers the request runs the continuation up to the next await.    *)
(***************************************************************************)
EXTENDS Integers, Sequences, FiniteSets, TLC

\* ---------------------------------------------------------------- bounds
\* longest input lists
MaxCalls == 3
MaxFiles == 3
\* where the request counters stop counting
MaxCount == 3
\* waitForTranscription's budget maxWaitTime in ms (300000 in the code, scaled
\* down to two poll intervals) and the longest a status request takes
MaxWaitTime == 6000
NetLatency == 1000
\* longest date range of a fetch, and the pages the provider holds for a day
MaxDays == 2
MaxPages == 3
\* stage 3: most files of a request that still lack a transcript; the delay of
\* the session cleanup (60000 ms in the code) and the period of a stream's
\* poll timer (1000 ms), both in ticks of the model's clock
MaxPending == 2
SessionTtl == 2
StreamInterval == 1
\* file names: call_id strings of up to MaxIdLen - 1 characters, broker_id
\* strings of up to MaxIdLen + 1 characters
MaxIdLen == 3

\* ------------------------------------------------------ program constants
DefaultBatchSize == 4
DefaultBatchDelay == 1000
PollInterval == 3000
DefaultMinDuration == 15
FetchMinDuration == 10

CallIds == 1..MaxCalls
BatchSizeOptions == {0, 1, 2}
ConcurrencyOptions == {1, 2}

VARIABLES
  op,            \* which batch operation this run performs
  calls,         \* downloadBatch: the input call list (call_id of each call)
  batchSize,     \* downloadBatch: const batchSize
  batchDelay,    \* downloadBatch: options.batchDelay as the caller passed it (ms)
  waits,         \* downloadBatch: the durations of the timers set between chunks
  pc,            \* downloadBatch: position of the batch function itself
  i,             \* downloadBatch: loop variable i (offset of the current chunk)
  dl,            \* downloadBatch: position of each worker (one per input call)
  accessToken,   \* AudioDownloadService.accessToken ("null" or "token")
  successful,    \* downloadBatch: successful[] (call_id of each DownloadResult)
  failed,        \* downloadBatch: failed[]
  tokenRequests, \* requests sent to /oauth/token so far (saturating)
  lookups,       \* per worker: lookups its getRecordingInfo call has sent (saturating)
  refreshes,     \* per worker: refreshes its getRecordingInfo call has done (saturating)
  had401,        \* some lookup has been answered with 401
  tokenError,    \* some token request has been refused
  disk,          \* the audio files in outputDir: size of each, by the call's file
  emitted,       \* the DownloadResults downloadAudio has returned
  files,         \* transcribeBatch: the input files (filename of each)
  concurrentLimit, \* transcribeBatch: concurrentLimit
  tpc,           \* transcribeBatch: position of the batch function itself
  ti,            \* transcribeBatch: loop variable i
  tr,            \* transcribeBatch: position of each worker (one per file)
  elapsed,       \* per worker: Date.now() - startTime of waitForTranscription
  lastStatus,    \* per worker: the last answer of the status endpoint
  trValue,       \* per worker: the value its promise settled with
  results,       \* transcribeBatch: results[]
  completed,     \* transcribeBatch: let completed
  progressLog,   \* the onProgress invocations so far, in order
  written,       \* per worker: the files transcribeFile has written for it
  statusRequests,\* per worker: the status requests its wait has sent so far
  input,         \* deduplicateCalls / filterCallsForDownload: the argument calls
  minDuration,   \* filterCallsForDownload: the argument minDuration
  output,        \* the value the function returned
  output2,       \* deduplicateCalls: the value returned for the first result
  ppc,           \* how often the function has been applied
  zone,          \* stage 1: the time zone of the process that runs the route
  startDay,      \* stage 1: startDate of the request, as a UTC day number
  endDay,        \* stage 1: endDate of the request
  pageSize,      \* stage 1: pageSize of the request
  fpc,           \* stage 1: position of the POST handler
  dates,         \* stage 1: const dates (instants in hours since day 0, 00:00 UTC)
  day,           \* stage 1: index in dates of the date of the for loop
  page,          \* stage 1: let page
  dateCalls,     \* stage 1: const dateCalls
  allCalls,      \* stage 1: const allCalls
  dailyResults,  \* stage 1: const dailyResults
  pageLog,       \* the call-log answers of the current day: size and next of each
  n2pToken,      \* Net2PhoneService.accessToken ("null" or "token")
  requests,      \* stage 1: requests sent to the provider so far (saturating)
  now,           \* stage 3: the value Date.now() returns
  progressMap,   \* stage 3: const progressMap (session key -> TranscriptionProgress[])
  appended,      \* per session key: every progress entry pushed under it, in order
  post,          \* stage 3: each POST request (position, input, locals, timer)
  stream         \* stage 3: each GET request (position, locals of start(), output)

dvars == <<calls, batchSize, pc, i, dl, accessToken, successful, failed,
           tokenRequests, lookups, refreshes, had401, tokenError, disk, emitted,
           batchDelay, waits>>

tvars == <<files, concurrentLimit, tpc, ti, tr, elapsed, lastStatus, trValue,
           results, completed, progressLog, written, statusRequests>>

pvars == <<input, minDuration, output, output2, ppc>>

fvars == <<zone, startDay, endDay, pageSize, fpc, dates, day, page, dateCalls,
           allCalls, dailyResults, pageLog, n2pToken, requests>>

svars == <<now, progressMap, appended, post, stream>>

\* the variables of the operations other than the two batches
ovars == <<pvars, fvars, svars>>

vars == <<op, dvars, tvars, ovars>>

\* ----------------------------------------------------------------- helpers
Min(a, b) == IF a < b THEN a ELSE b

Inc(c) == IF c < MaxCount THEN c + 1 ELSE c

Count(s, x) == Cardinality({k \in 1..Len(s) : s[k] = x})

\* the state of an operation that this run does not perform
IdleDownload ==
  /\ calls = <<>>
  /\ batchSize = DefaultBatchSize
  /\ pc = "start"
  /\ i = 0
  /\ dl = <<>>
  /\ accessToken = "null"
  /\ successful = <<>>
  /\ failed = <<>>
  /\ tokenRequests = 0
  /\ lookups = <<>>
  /\ refreshes = <<>>
  /\ had401 = FALSE
  /\ tokenError = FALSE
  /\ disk = <<>>
  /\ emitted = {}
  /\ batchDelay = DefaultBatchDelay
  /\ waits = <<>>

IdleTranscribe ==
  /\ files = <<>>
  /\ concurrentLimit = 1
  /\ tpc = "start"
  /\ ti = 0
  /\ tr = <<>>
  /\ elapsed = <<>>
  /\ lastStatus = <<>>
  /\ trValue = <<>>
  /\ results = <<>>
  /\ completed = 0
  /\ progressLog = <<>>
  /\ written = <<>>
  /\ statusRequests = <<>>

IdlePure ==
  /\ input = <<>>
  /\ minDuration = 0
  /\ output = <<>>
  /\ output2 = <<>>
  /\ ppc = "start"

IdleFetch ==
  /\ zone = "UTC"
  /\ startDay = 1
  /\ endDay = 1
  /\ pageSize = 0
  /\ fpc = "start"
  /\ dates = <<>>
  /\ day = 0
  /\ page = 0
  /\ dateCalls = <<>>
  /\ allCalls = <<>>
  /\ dailyResults = <<>>
  /\ pageLog = <<>>
  /\ n2pToken = "null"
  /\ requests = 0

IdleStage3 ==
  /\ now = 1
  /\ progressMap = <<>>
  /\ appended = <<>>
  /\ post = <<>>
  /\ stream = <<>>

\* ------------------------------------------------- AudioDownloadService
\* const batchSize = options?.batchSize || 4
EffectiveBatchSize(opt) == IF opt = 0 THEN DefaultBatchSize ELSE opt

\* const batchDelay = options?.batchDelay || 1000
EffectiveBatchDelay(opt) == IF opt = 0 THEN DefaultBatchDelay ELSE opt

\* (variant: a slice one element too long)
BatchSliceOneMore(from, bs, n) == {j \in 1..n : from < j /\ j <= Min(from + bs + 1, n)}

\* the index Array.prototype.slice works with: a negative argument counts
\* from the end of the array, and the result is clamped to 0..length
SliceIndex(k, n) == IF k < 0 THEN (IF n + k < 0 THEN 0 ELSE n + k) ELSE Min(k, n)

\* calls.slice(i, Math.min(i + batchSize, calls.length)) and
\* files.slice(i, i + concurrentLimit), as 1-based indices
BatchSlice(from, bs, n) ==
  {j \in 1..n : SliceIndex(from, n) < j /\ j <= SliceIndex(Min(from + bs, n), n)}

\* (variant: Promise.race, the first promise of the chunk to settle)
AnySettled(batch, st) == \E j \in batch : st[j] = "done"

\* await Promise.all(batchPromises): every promise of the chunk has settled
AllSettled(batch, st) == \A j \in batch : st[j] = "done"

\* if (i + batchSize < calls.length): another chunk follows
MoreChunks(from, bs, n) == from + bs < n

\* getRecordingInfo entry: without a cached token the token is fetched first
\* (the request goes out inside getAccessToken), else the lookup goes out
RecordingInfoEntry(tok) == IF tok = "null" THEN "token" ELSE "lookup"

\* downloadAudio: recordingInfo.status !== 'Available' || !recordingInfo.url
Unavailable(r) == r \in {"notOk", "threw", "noRecordings", "Processing", "Failed", "noUrl"}

LookupResponses == {"401", "notOk", "threw", "noRecordings", "Processing",
                    "Failed", "noUrl", "Available"}

BodyResponses == {"bytes", "notOk", "threw", "noBody", "zeroBytes"}

\* the worker's if (result) successful.push(result) else failed.push(...)
PushSuccessful(succ, call, result) ==
  IF result = "result" THEN Append(succ, call) ELSE succ

\* (variant: the failures kept under their call_id, one entry per call_id)
PushFailedByCallId(fl, call, result) ==
  IF result = "result" \/ \E k \in 1..Len(fl) : fl[k].call_id = call THEN fl
  ELSE Append(fl, [call_id |-> call, error |-> "Download failed"])

PushFailed(fl, call, result) ==
  IF result = "result" THEN fl
  ELSE Append(fl, [call_id |-> call, error |-> "Download failed"])

\* the worker of call w settles with the value downloadAudio returned; the
\* counters of its getRecordingInfo call end with the call
Settle(w, result) ==
  /\ dl' = [dl EXCEPT ![w] = "done"]
  /\ successful' = PushSuccessful(successful, calls[w], result)
  /\ failed' = PushFailed(failed, calls[w], result)
  /\ lookups' = [lookups EXCEPT ![w] = 0]
  /\ refreshes' = [refreshes EXCEPT ![w] = 0]

\* batch.map(async (call) => ...): every worker of the chunk runs up to its
\* first await, all of them seeing the same accessToken
LaunchChunk(from) ==
  LET batch == BatchSlice(from, batchSize, Len(calls))
      first == RecordingInfoEntry(accessToken)
      n     == Cardinality(batch)
  IN /\ dl' = [j \in DOMAIN dl |-> IF j \in batch THEN first ELSE dl[j]]
     /\ lookups' = [j \in DOMAIN dl |->
                      IF j \in batch /\ first = "lookup" THEN Inc(lookups[j])
                      ELSE lookups[j]]
     /\ tokenRequests' = IF first = "token"
                         THEN Min(tokenRequests + n, MaxCount)
                         ELSE tokenRequests

\* the input lists: calls with pairwise different call_ids, and lists whose
\* last call repeats the call_id of the first
InputCalls ==
  {[k \in 1..n |-> k] : n \in 0..MaxCalls}
  \cup {[k \in 1..n |-> IF k = n THEN 1 ELSE k] : n \in 2..MaxCalls}

\* the body was read to its end, so that the file is written
BodyRead(r) == r \in {"bytes", "zeroBytes"}

\* Buffer.concat(chunks).length, which is stats.size of the file written
BodySize(r) == IF r = "bytes" THEN 1024000 ELSE 0

\* fs.writeFileSync(filePath, buffer) and fs.unlinkSync(filePath); the
\* directory is the function from the files in it to their sizes
WriteFile(d, name, size) ==
  [n \in DOMAIN d \cup {name} |-> IF n = name THEN size ELSE d[n]]

Unlink(d, name) == [n \in DOMAIN d \ {name} |-> d[n]]

\* (variant: without the test of stats.size)
DownloadValueNoSizeTest(r) == IF BodyRead(r) THEN "result" ELSE "null"

\* downloadAudio's value for an answer of the recording binary endpoint: the
\* DownloadResult when the body was read and stats.size is not 0, else null
DownloadValue(r) == IF BodyRead(r) /\ BodySize(r) # 0 THEN "result" ELSE "null"

\* outputDir after downloadAudio has handled the answer: the file is written
\* once the body was read, and removed again if (stats.size === 0)
DiskAfterDownload(d, name, r) ==
  IF ~BodyRead(r) THEN d
  ELSE IF BodySize(r) = 0 THEN Unlink(WriteFile(d, name, BodySize(r)), name)
  ELSE WriteFile(d, name, BodySize(r))

\* the DownloadResults returned so far, with the one this answer adds
EmittedAfterDownload(em, call, r) ==
  IF DownloadValue(r) = "result"
  THEN em \cup {[call_id |-> call, size |-> BodySize(r)]}
  ELSE em

\* outputDir before the batch: empty, or holding the audio file of the first
\* call from an earlier run
InitialDisks(cs) ==
  {<<>>} \cup {WriteFile(<<>>, cs[k], 1024000) : k \in {1} \cap DOMAIN cs}

\* the values of options.batchDelay: 0, and the value the stage 2 route passes
\* by default
BatchDelayOptions == {0, 20000}

\* a fresh AudioDownloadService and a call of downloadBatch with a call list
\* of lists and a delay of delays, outputDir empty (fresh) or as an earlier
\* run may have left it
InitDownloadFrom(lists, delays, fresh) ==
  /\ op = "download"
  /\ calls \in lists
  /\ batchDelay \in delays
  /\ waits = <<>>
  /\ batchSize \in {EffectiveBatchSize(o) : o \in BatchSizeOptions}
  /\ pc = "start"
  /\ i = 0
  /\ dl = [j \in 1..Len(calls) |-> "idle"]
  /\ accessToken = "null"
  /\ successful = <<>>
  /\ failed = <<>>
  /\ tokenRequests = 0
  /\ lookups = [j \in 1..Len(calls) |-> 0]
  /\ refreshes = [j \in 1..Len(calls) |-> 0]
  /\ had401 = FALSE
  /\ tokenError = FALSE
  /\ disk \in (IF fresh THEN {<<>>} ELSE InitialDisks(calls))
  /\ emitted = {}
  /\ IdleTranscribe
  /\ IdlePure
  /\ IdleFetch
  /\ IdleStage3

InitDownload == InitDownloadFrom(InputCalls, {DefaultBatchDelay}, FALSE)

\* downloadBatch over calls with pairwise different call_ids, for each value
\* of options.batchDelay
InitBatchDelay ==
  InitDownloadFrom({[k \in 1..n |-> k] : n \in 0..MaxCalls}, BatchDelayOptions, TRUE)

\* downloadBatch is called: runs to the first await (Promise.all of chunk 1)
\* or, for an empty list, straight to the return
DownloadBatch ==
  /\ op = "download"
  /\ pc = "start"
  /\ IF 0 < Len(calls)
     THEN /\ LaunchChunk(0)
          /\ pc' = "await"
     ELSE /\ pc' = "done"
          /\ UNCHANGED <<dl, lookups, tokenRequests>>
  /\ UNCHANGED <<tvars, ovars, disk, emitted, batchDelay, waits>>
  /\ UNCHANGED <<op, calls, batchSize, i, accessToken, successful, failed,
                 refreshes, had401, tokenError>>

\* the token request of getRecordingInfo's first line is answered
TokenResponse(w, ok) ==
  /\ op = "download"
  /\ dl[w] = "token"
  /\ IF ok
     THEN /\ accessToken' = "token"
          /\ dl' = [dl EXCEPT ![w] = "lookup"]
          /\ lookups' = [lookups EXCEPT ![w] = Inc(@)]
          /\ UNCHANGED <<successful, failed, refreshes, tokenError>>
     ELSE \* getAccessToken throws outside getRecordingInfo's try: caught by
          \* downloadAudio, which returns null
          /\ Settle(w, "null")
          /\ tokenError' = TRUE
          /\ UNCHANGED accessToken
  /\ UNCHANGED <<tvars, ovars, disk, emitted, batchDelay, waits>>
  /\ UNCHANGED <<op, calls, batchSize, pc, i, tokenRequests, had401>>

\* the recording lookup is answered
LookupResponse(w, r) ==
  /\ op = "download"
  /\ dl[w] = "lookup"
  /\ IF r = "401"
     THEN \* this.accessToken = null; this.accessToken = await getAccessToken()
          /\ accessToken' = "null"
          /\ dl' = [dl EXCEPT ![w] = "refresh"]
          /\ tokenRequests' = Inc(tokenRequests)
          /\ refreshes' = [refreshes EXCEPT ![w] = Inc(@)]
          /\ had401' = TRUE
          /\ UNCHANGED <<successful, failed, lookups>>
     ELSE /\ IF Unavailable(r)
             THEN Settle(w, "null")
             ELSE /\ dl' = [dl EXCEPT ![w] = "body"]
                  /\ UNCHANGED <<successful, failed, lookups, refreshes>>
          /\ UNCHANGED <<accessToken, tokenRequests, had401>>
  /\ UNCHANGED <<tvars, ovars, disk, emitted, batchDelay, waits>>
  /\ UNCHANGED <<op, calls, batchSize, pc, i, tokenError>>

\* the token request of the 401 branch is answered
RefreshResponse(w, ok) ==
  /\ op = "download"
  /\ dl[w] = "refresh"
  /\ IF ok
     THEN \* return this.getRecordingInfo(callId): the token is set, so the
          \* lookup goes out again
          /\ accessToken' = "token"
          /\ dl' = [dl EXCEPT ![w] = RecordingInfoEntry("token")]
          /\ lookups' = [lookups EXCEPT ![w] = Inc(@)]
          /\ UNCHANGED <<successful, failed, refreshes, tokenError>>
     ELSE \* thrown inside the try: status 'Failed', downloadAudio returns null
          /\ Settle(w, "null")
          /\ tokenError' = TRUE
          /\ UNCHANGED accessToken
  /\ UNCHANGED <<tvars, ovars, disk, emitted, batchDelay, waits>>
  /\ UNCHANGED <<op, calls, batchSize, pc, i, tokenRequests, had401>>

\* the audio body has been fetched and read to its end (or the fetch failed)
BodyResponse(w, r) ==
  /\ op = "download"
  /\ dl[w] = "body"
  /\ Settle(w, DownloadValue(r))
  /\ disk' = DiskAfterDownload(disk, calls[w], r)
  /\ emitted' = EmittedAfterDownload(emitted, calls[w], r)
  /\ UNCHANGED <<tvars, ovars, batchDelay, waits>>
  /\ UNCHANGED <<op, calls, batchSize, pc, i, accessToken, tokenRequests,
                 had401, tokenError>>

\* Promise.all of the current chunk resolves; if another chunk follows, the
\* timer of setTimeout(resolve, batchDelay) is set
ChunkSettled ==
  /\ op = "download"
  /\ pc = "await"
  /\ AllSettled(BatchSlice(i, batchSize, Len(calls)), dl)
  /\ IF MoreChunks(i, batchSize, Len(calls))
     THEN /\ pc' = "delay"
          /\ i' = i
          /\ waits' = Append(waits, EffectiveBatchDelay(batchDelay))
     ELSE /\ pc' = "done"
          /\ i' = i + batchSize
          /\ waits' = waits
  /\ UNCHANGED <<tvars, ovars, disk, emitted, batchDelay>>
  /\ UNCHANGED <<op, calls, batchSize, dl, accessToken, successful, failed,
                 tokenRequests, lookups, refreshes, had401, tokenError>>

\* the batchDelay timer fires: i += batchSize and the next chunk is launched
DelayElapsed ==
  /\ op = "download"
  /\ pc = "delay"
  /\ i' = i + batchSize
  /\ LaunchChunk(i + batchSize)
  /\ pc' = "await"
  /\ UNCHANGED <<tvars, ovars, disk, emitted, batchDelay, waits>>
  /\ UNCHANGED <<op, calls, batchSize, accessToken, successful, failed,
                 refreshes, had401, tokenError>>

NextDownload ==
  \/ DownloadBatch
  \/ \E w \in DOMAIN dl, ok \in BOOLEAN : TokenResponse(w, ok)
  \/ \E w \in DOMAIN dl, r \in LookupResponses : LookupResponse(w, r)
  \/ \E w \in DOMAIN dl, ok \in BOOLEAN : RefreshResponse(w, ok)
  \/ \E w \in DOMAIN dl, r \in BodyResponses : BodyResponse(w, r)
  \/ ChunkSettled
  \/ DelayElapsed

SpecDownload == InitDownload /\ [][NextDownload]_vars

SpecBatchDelay == InitBatchDelay /\ [][NextDownload]_vars

\* ---------------------------------------------------- AssemblyAIService
\* (variant: only completed ends the wait)
TerminalStatusCompleted(st) == st = "completed"

\* result.status === 'completed' || result.status === 'error'
TerminalStatus(st) == st \in {"completed", "error"}

\* while (Date.now() - startTime < maxWaitTime)
WithinBudget(e, max) == e < max

\* the answers of GET /transcript/{id}; "notOk" is a response with !response.ok
ProviderErrors == {<<>>, <<"Test error">>}

StatusAnswers ==
  {[status |-> st, error |-> <<>>] : st \in {"queued", "processing", "completed", "notOk"}}
  \cup {[status |-> "error", error |-> e] : e \in ProviderErrors}

\* the answers of POST /upload and POST /transcript: ok, or the message of
\* the error thrown for a response with !response.ok
UploadAnswers == {"ok", "Failed to upload audio"}

CreateAnswers == {"ok", "Failed to create transcription"}

\* transcribeFile's catch: new Error(`Transcription failed: ${error.message}`)
TranscribeFileError(msg) == <<"Transcription failed", msg>>

\* waitForTranscription: throw new Error('Transcription timeout')
TimeoutError == "Transcription timeout"

\* transcribeFile after waitForTranscription returned: the formatted
\* transcript and the raw JSON are written inside if (result.status ===
\* 'completed'), and nowhere else
FilesWritten(status) ==
  IF status = "completed" THEN {"transcriptFile", "rawTranscriptFile"} ELSE {}

Pending == [file |-> 0, success |-> FALSE, error |-> <<>>, promise |-> "pending"]

\* the worker's return in its try block
WorkerResolve(file, result) ==
  [file |-> file, success |-> (result.status = "completed"),
   error |-> result.error, promise |-> "fulfilled"]

\* (variant: a catch block that rethrows)
WorkerCatchRethrow(file, msg) ==
  [file |-> file, success |-> FALSE, error |-> msg, promise |-> "rejected"]

\* (variant: a catch block that drops the message)
WorkerCatchNoMessage(file, msg) ==
  [file |-> file, success |-> FALSE, error |-> <<>>, promise |-> "fulfilled"]

\* the worker's return in its catch block
WorkerCatch(file, msg) ==
  [file |-> file, success |-> FALSE, error |-> msg, promise |-> "fulfilled"]

\* (variant: the values in the order in which the workers settled, read off
\* the chunk's onProgress invocations)
BatchValuesAsSettled(from, batch, vals) ==
  LET n == Cardinality(batch)
      settled(k) == progressLog[Len(progressLog) - n + k].current
  IN [k \in 1..n |-> vals[CHOOSE j \in DOMAIN files : files[j] = settled(k)]]

\* const batchResults = await Promise.all(batchPromises): the values in the
\* order of the chunk's files
BatchValues(from, batch, vals) ==
  [k \in 1..Cardinality(batch) |-> vals[from + k]]

\* Promise.all rejects as soon as one of its promises rejects
SomeRejected(batch, vals) == \E j \in batch : vals[j].promise = "rejected"

\* (variant: progress reported only when the whole batch is through)
OnProgressAtEnd(log, c, total, name) ==
  IF c = total THEN Append(log, [completed |-> c, total |-> total, current |-> name])
  ELSE log

\* onProgress(completed, files.length, fileInfo.filename), as the caller's
\* callback records it
OnProgress(log, c, total, name) ==
  Append(log, [completed |-> c, total |-> total, current |-> name])

\* the worker of file w settles with value v: completed++, onProgress(...);
\* the clock and the request count of its wait end with the wait
TSettle(w, v) ==
  /\ tr' = [tr EXCEPT ![w] = "done"]
  /\ elapsed' = [elapsed EXCEPT ![w] = 0]
  /\ statusRequests' = [statusRequests EXCEPT ![w] = 0]
  /\ trValue' = [trValue EXCEPT ![w] = v]
  /\ completed' = completed + 1
  /\ progressLog' = OnProgress(progressLog, completed + 1, Len(files), files[w])

\* batch.map(async (fileInfo) => ...): each worker runs into uploadAudio
TLaunchChunk(from) ==
  tr' = [j \in DOMAIN tr |->
           IF j \in BatchSlice(from, concurrentLimit, Len(files)) THEN "upload"
           ELSE tr[j]]

\* the input lists: files with pairwise different names, in ascending and in
\* descending order of their names
InputFiles ==
  {[k \in 1..n |-> k] : n \in 0..MaxFiles}
  \cup {[k \in 1..n |-> n + 1 - k] : n \in 0..MaxFiles}

\* the concurrentLimit values of a stage 3 request body, which the route
\* hands to transcribeBatch as they are
LimitInputs == {-1, 0, 1, 2}

InitTranscribeFrom(lists, limits) ==
  /\ op = "transcribe"
  /\ files \in lists
  /\ concurrentLimit \in limits
  /\ tpc = "start"
  /\ ti = 0
  /\ tr = [j \in 1..Len(files) |-> "idle"]
  /\ elapsed = [j \in 1..Len(files) |-> 0]
  /\ lastStatus = [j \in 1..Len(files) |-> "none"]
  /\ trValue = [j \in 1..Len(files) |-> Pending]
  /\ results = <<>>
  /\ completed = 0
  /\ progressLog = <<>>
  /\ written = [j \in 1..Len(files) |-> {}]
  /\ statusRequests = [j \in 1..Len(files) |-> 0]
  /\ IdleDownload
  /\ IdlePure
  /\ IdleFetch
  /\ IdleStage3

InitTranscribe == InitTranscribeFrom(InputFiles, ConcurrencyOptions)

\* transcribeBatch as the stage 3 route calls it
InitAnyLimit == InitTranscribeFrom({[k \in 1..n |-> k] : n \in 0..MaxFiles}, LimitInputs)

\* transcribeBatch is called: runs to the first await, or returns at once
TranscribeBatch ==
  /\ op = "transcribe"
  /\ tpc = "start"
  /\ IF 0 < Len(files)
     THEN /\ TLaunchChunk(0)
          /\ tpc' = "await"
     ELSE /\ tpc' = "done"
          /\ UNCHANGED tr
  /\ UNCHANGED <<op, dvars, ovars, files, concurrentLimit, ti, elapsed, lastStatus,
                 trValue, results, completed, progressLog, written, statusRequests>>

\* POST /upload is answered (or reading the audio file threw)
UploadResponse(w, r) ==
  /\ op = "transcribe"
  /\ tr[w] = "upload"
  /\ IF r = "ok"
     THEN /\ tr' = [tr EXCEPT ![w] = "create"]
          /\ UNCHANGED <<elapsed, trValue, completed, progressLog, statusRequests>>
     ELSE TSettle(w, WorkerCatch(files[w], TranscribeFileError(r)))
  /\ UNCHANGED <<op, dvars, ovars, files, concurrentLimit, tpc, ti, lastStatus, results,
                 written>>

\* POST /transcript is answered; on success waitForTranscription starts its
\* clock and sends the first status request
CreateResponse(w, r) ==
  /\ op = "transcribe"
  /\ tr[w] = "create"
  /\ IF r = "ok"
     THEN /\ IF WithinBudget(0, MaxWaitTime)
             THEN /\ tr' = [tr EXCEPT ![w] = "poll"]
                  /\ statusRequests' = [statusRequests EXCEPT ![w] = @ + 1]
                  /\ UNCHANGED <<elapsed, trValue, completed, progressLog>>
             ELSE TSettle(w, WorkerCatch(files[w], TranscribeFileError(TimeoutError)))
     ELSE TSettle(w, WorkerCatch(files[w], TranscribeFileError(r)))
  /\ UNCHANGED <<op, dvars, ovars, files, concurrentLimit, tpc, ti, lastStatus, results,
                 written>>

\* GET /transcript/{id} is answered d milliseconds after it was sent
StatusResponse(w, a, d) ==
  /\ op = "transcribe"
  /\ tr[w] = "poll"
  /\ lastStatus' = [lastStatus EXCEPT ![w] = a.status]
  /\ IF a.status = "notOk"
     THEN TSettle(w, WorkerCatch(files[w],
                    TranscribeFileError("Failed to get transcription status")))
     ELSE IF TerminalStatus(a.status)
          THEN TSettle(w, WorkerResolve(files[w], a))
          ELSE /\ tr' = [tr EXCEPT ![w] = "sleep"]
               /\ elapsed' = [elapsed EXCEPT ![w] = @ + d]
               /\ UNCHANGED <<trValue, completed, progressLog, statusRequests>>
  /\ written' = [written EXCEPT ![w] = @ \cup FilesWritten(a.status)]
  /\ UNCHANGED <<op, dvars, ovars, files, concurrentLimit, tpc, ti, results>>

\* the pollInterval timer fires and the loop condition is tested again
PollTimer(w) ==
  /\ op = "transcribe"
  /\ tr[w] = "sleep"
  /\ IF WithinBudget(elapsed[w] + PollInterval, MaxWaitTime)
     THEN /\ tr' = [tr EXCEPT ![w] = "poll"]
          /\ elapsed' = [elapsed EXCEPT ![w] = @ + PollInterval]
          /\ statusRequests' = [statusRequests EXCEPT ![w] = @ + 1]
          /\ UNCHANGED <<trValue, completed, progressLog>>
     ELSE TSettle(w, WorkerCatch(files[w], TranscribeFileError(TimeoutError)))
  /\ UNCHANGED <<op, dvars, ovars, files, concurrentLimit, tpc, ti, lastStatus, results,
                 written>>

\* i += concurrentLimit; below -MaxCount every slice is empty and the index
\* is no longer followed
NextIndex(from, limit) == IF from + limit < -MaxCount THEN from ELSE from + limit

\* Promise.all of the current chunk settles: results.push(...batchResults),
\* i += concurrentLimit and the next chunk is launched, or the batch returns
TranscribeChunkSettled ==
  /\ op = "transcribe"
  /\ tpc = "await"
  /\ LET batch == BatchSlice(ti, concurrentLimit, Len(files))
     IN /\ AllSettled(batch, tr) \/ SomeRejected(batch, trValue)
        /\ IF SomeRejected(batch, trValue)
           THEN /\ tpc' = "rejected"
                /\ UNCHANGED <<ti, tr, results>>
           ELSE /\ results' = results \o BatchValues(ti, batch, trValue)
                /\ ti' = NextIndex(ti, concurrentLimit)
                /\ IF ti + concurrentLimit < Len(files)
                   THEN /\ TLaunchChunk(ti + concurrentLimit)
                        /\ tpc' = "await"
                   ELSE /\ tpc' = "done"
                        /\ UNCHANGED tr
  /\ UNCHANGED <<op, dvars, ovars, files, concurrentLimit, elapsed, lastStatus,
                 trValue, completed, progressLog, written, statusRequests>>

NextTranscribe ==
  \/ TranscribeBatch
  \/ \E w \in DOMAIN tr, r \in UploadAnswers : UploadResponse(w, r)
  \/ \E w \in DOMAIN tr, r \in CreateAnswers : CreateResponse(w, r)
  \/ \E w \in DOMAIN tr, a \in StatusAnswers, d \in {0, NetLatency} :
        StatusResponse(w, a, d)
  \/ \E w \in DOMAIN tr : PollTimer(w)
  \/ TranscribeChunkSettled

SpecTranscribe == InitTranscribe /\ [][NextTranscribe]_vars

SpecAnyLimit == InitAnyLimit /\ [][NextTranscribe]_vars

\* ----------------------------------------- CallRecord lists (pure functions)
\* String.prototype.trim on the strings of the model: "" is the empty string,
\* " " a string of white space only, every other string has a visible character
Trim(str) == IF str = " " THEN "" ELSE str

\* the sequences over S of length at most n
SeqsUpTo(S, n) == UNION {[1..k -> S] : k \in 0..n}

\* deduplicateCalls: call.from_name?.trim() && call.recording_url?.trim()
HasNameAndRecording(call) ==
  Trim(call.from_name) # "" /\ Trim(call.recording_url) # ""

\* Map.has(key); the Map is the sequence of its values in insertion order
MapHas(m, key) == \E k \in 1..Len(m) : m[k].call_id = key

\* Map.set(call.call_id, call): a new key is added at the end, the value of a
\* key already present is replaced at the key's place
MapSet(m, call) ==
  IF MapHas(m, call.call_id)
  THEN [k \in 1..Len(m) |-> IF m[k].call_id = call.call_id THEN call ELSE m[k]]
  ELSE Append(m, call)

\* (variant: a rich record is pushed to the result instead of set under its key)
DedupStepPushRich(m, call) ==
  IF ~MapHas(m, call.call_id) THEN MapSet(m, call)
  ELSE IF HasNameAndRecording(call) THEN Append(m, call)
  ELSE m

\* the body of deduplicateCalls' loop
DedupStep(m, call) ==
  IF ~MapHas(m, call.call_id) THEN MapSet(m, call)
  ELSE IF HasNameAndRecording(call) THEN MapSet(m, call)
  ELSE m

RECURSIVE DedupLoop(_, _)
DedupLoop(cs, m) ==
  IF cs = <<>> THEN m ELSE DedupLoop(Tail(cs), DedupStep(m, Head(cs)))

\* Net2PhoneService.deduplicateCalls: Array.from(callMap.values())
DeduplicateCalls(cs) == DedupLoop(cs, <<>>)

\* the CallRecords deduplicateCalls is applied to
DedupRecords ==
  [call_id : {"c1", "c2"}, from_name : {"", " ", "Ann"},
   recording_url : {"", "url"}, from_number : {"+111", "+222"}]

InitDedup ==
  /\ op = "dedup"
  /\ input \in SeqsUpTo(DedupRecords, MaxCalls)
  /\ minDuration = 0
  /\ output = <<>>
  /\ output2 = <<>>
  /\ ppc = "start"
  /\ IdleDownload
  /\ IdleTranscribe
  /\ IdleFetch
  /\ IdleStage3

\* deduplicateCalls(input)
CallDeduplicateCalls ==
  /\ op = "dedup"
  /\ ppc = "start"
  /\ output' = DeduplicateCalls(input)
  /\ ppc' = "once"
  /\ UNCHANGED <<op, dvars, tvars, fvars, svars, input, minDuration, output2>>

\* deduplicateCalls(output), output being the result of the first application
CallDeduplicateCallsAgain ==
  /\ op = "dedup"
  /\ ppc = "once"
  /\ output2' = DeduplicateCalls(output)
  /\ ppc' = "twice"
  /\ UNCHANGED <<op, dvars, tvars, fvars, svars, input, minDuration, output>>

NextDedup == CallDeduplicateCalls \/ CallDeduplicateCallsAgain

SpecDedup == InitDedup /\ [][NextDedup]_vars

\* (variant: the duration is tested before the call_id)
SkipReasonDurationFirst(call, min) ==
  IF call.duration < min THEN "skippedTooShort"
  ELSE IF call.call_id = "" THEN "skippedNoCallId"
  ELSE IF call.recording_url = "" \/ Trim(call.recording_url) = "" THEN "skippedNoRecording"
  ELSE "eligible"

\* the chain of tests in filterCallsForDownload's forEach callback
SkipReason(call, min) ==
  IF call.call_id = "" THEN "skippedNoCallId"
  ELSE IF call.duration < min THEN "skippedTooShort"
  ELSE IF call.recording_url = "" \/ Trim(call.recording_url) = "" THEN "skippedNoRecording"
  ELSE "eligible"

FilterStep(acc, call, min) ==
  LET r == SkipReason(call, min)
  IN [eligible |-> IF r = "eligible" THEN Append(acc.eligible, call) ELSE acc.eligible,
      skippedTooShort |-> acc.skippedTooShort + (IF r = "skippedTooShort" THEN 1 ELSE 0),
      skippedNoRecording |-> acc.skippedNoRecording + (IF r = "skippedNoRecording" THEN 1 ELSE 0),
      skippedNoCallId |-> acc.skippedNoCallId + (IF r = "skippedNoCallId" THEN 1 ELSE 0)]

RECURSIVE FilterLoop(_, _, _)
FilterLoop(cs, acc, min) ==
  IF cs = <<>> THEN acc ELSE FilterLoop(Tail(cs), FilterStep(acc, Head(cs), min), min)

\* AudioDownloadService.filterCallsForDownload
FilterCallsForDownload(cs, min) ==
  FilterLoop(cs, [eligible |-> <<>>, skippedTooShort |-> 0,
                  skippedNoRecording |-> 0, skippedNoCallId |-> 0], min)

\* the CallRecords and thresholds filterCallsForDownload is applied to: the
\* default threshold and the one above it, durations around both
MinDurationOptions == {DefaultMinDuration, DefaultMinDuration + 1}

FilterRecords ==
  [call_id : {"", "c1"},
   duration : {DefaultMinDuration - 1, DefaultMinDuration, DefaultMinDuration + 1},
   recording_url : {"", " ", "url"}]

InitFilter ==
  /\ op = "filter"
  /\ input \in SeqsUpTo(FilterRecords, MaxCalls)
  /\ minDuration \in MinDurationOptions
  /\ output = <<>>
  /\ output2 = <<>>
  /\ ppc = "start"
  /\ IdleDownload
  /\ IdleTranscribe
  /\ IdleFetch
  /\ IdleStage3

\* filterCallsForDownload(input, minDuration)
CallFilterCallsForDownload ==
  /\ op = "filter"
  /\ ppc = "start"
  /\ output' = FilterCallsForDownload(input, minDuration)
  /\ ppc' = "once"
  /\ UNCHANGED <<op, dvars, tvars, fvars, svars, input, minDuration, output2>>

NextFilter == CallFilterCallsForDownload

SpecFilter == InitFilter /\ [][NextFilter]_vars

\* ------------------------------- Net2PhoneService.extractRelevantData
\* String.prototype.toLowerCase, on the letters the names of the model use
LowerCaseChar(c) ==
  CASE c = "J" -> "j" [] c = "D" -> "d" [] c = "S" -> "s" [] OTHER -> c

ToLowerCase(str) == [k \in 1..Len(str) |-> LowerCaseChar(str[k])]

\* String.prototype.substring(0, n)
Substring0(str, n) == SubSeq(str, 1, Min(n, Len(str)))

\* const fromName = from.name || from.username || ''
FromName(from) == IF from.name # <<>> THEN from.name ELSE from.username

\* brokerId: '' without a fromName, else fromName.toLowerCase().substring(0, 3)
BrokerId(from) ==
  IF FromName(from) # <<>> THEN Substring0(ToLowerCase(FromName(from)), 3) ELSE <<>>

\* extractRelevantData for one entry, for the fields derived from entry.from
ExtractCaller(entry) ==
  [call_id |-> entry.call_id, from_username |-> entry.from.username,
   from_name |-> FromName(entry.from), broker_id |-> BrokerId(entry.from)]

JohnDoeSmith ==
  <<"J", "o", "h", "n", " ", "D", "o", "e", " ", "S", "m", "i", "t", "h">>

ExtensionAtDomain ==
  <<"1", "2", "3", "4", "5", "@", "d", "o", "m", "a", "i", "n">>

\* raw entries: no name, names of up to 4 characters and the long name;
\* no username, a plain one and an extension at a domain
RawCallers ==
  [call_id : {"c1"},
   from : [name : SeqsUpTo({"J", "o", " "}, 4) \cup {JohnDoeSmith},
           username : {<<>>, <<"u", "1">>, ExtensionAtDomain}]]

InitExtract ==
  /\ op = "extract"
  /\ input \in RawCallers
  /\ minDuration = 0
  /\ output = <<>>
  /\ output2 = <<>>
  /\ ppc = "start"
  /\ IdleDownload
  /\ IdleTranscribe
  /\ IdleFetch
  /\ IdleStage3

\* extractRelevantData([input])
CallExtractRelevantData ==
  /\ op = "extract"
  /\ ppc = "start"
  /\ output' = ExtractCaller(input)
  /\ ppc' = "once"
  /\ UNCHANGED <<op, dvars, tvars, fvars, svars, input, minDuration, output2>>

SpecExtract == InitExtract /\ [][CallExtractRelevantData]_vars

\* ------------------------------------------- file names between stages
\* the characters of the model: a letter, the dot, a path separator, the
\* underscore and a character outside [a-zA-Z0-9._-]
IdChars == {"a", ".", "/", "_", " "}

\* [a-zA-Z0-9._-], on the characters the model's strings are made of
IsSafeChar(c) == c \in {"a", "k", "n", "o", "t", "u", "v", "w", "x", ".", "_", "-"}

\* .replace(/\.\./g, ''): the pairs of dots are removed from left to right
RECURSIVE RemoveDotDot(_)
RemoveDotDot(str) ==
  IF Len(str) >= 2 /\ str[1] = "." /\ str[2] = "."
  THEN RemoveDotDot(SubSeq(str, 3, Len(str)))
  ELSE IF str = <<>> THEN <<>>
  ELSE <<str[1]>> \o RemoveDotDot(Tail(str))

\* .replace(/[\/\\]/g, '_')
ReplaceSeparators(str) ==
  [k \in 1..Len(str) |-> IF str[k] \in {"/", "\\"} THEN "_" ELSE str[k]]

\* .replace(/[^a-zA-Z0-9._-]/g, '_')
ReplaceUnsafe(str) ==
  [k \in 1..Len(str) |-> IF IsSafeChar(str[k]) THEN str[k] ELSE "_"]

\* .replace(/^\.+/, '')
RECURSIVE StripLeadingDots(_)
StripLeadingDots(str) ==
  IF str # <<>> /\ str[1] = "." THEN StripLeadingDots(Tail(str)) ELSE str

SegmentLimit == 100
BrokerPrefixLength == 3

\* AudioDownloadService.sanitizeSegment
SanitizeSegment(inp) ==
  IF inp = <<>> THEN <<>>
  ELSE Substring0(StripLeadingDots(ReplaceUnsafe(ReplaceSeparators(RemoveDotDot(inp)))),
                  SegmentLimit)

\* a || b on strings
OrElse(a, b) == IF a # <<>> THEN a ELSE b

DotWav == <<".", "w", "a", "v">>

\* downloadAudio: safeBrokerId, safeCallId and filename of a call
AudioFileName(call) ==
  LET safeBrokerId == OrElse(Substring0(SanitizeSegment(call.broker_id), BrokerPrefixLength),
                             <<"u", "n", "k">>)
      safeCallId   == OrElse(SanitizeSegment(call.call_id),
                             <<"u", "n", "k", "n", "o", "w", "n">>)
  IN [safeBrokerId |-> safeBrokerId, safeCallId |-> safeCallId,
      filename |-> safeBrokerId \o <<"_">> \o safeCallId \o DotWav]

\* str.replace(pat, ''): the first occurrence of pat is removed
ReplaceFirst(str, pat) ==
  LET at == {k \in 1..(Len(str) - Len(pat) + 1) : SubSeq(str, k, k + Len(pat) - 1) = pat}
  IN IF at = {} THEN str
     ELSE LET k == CHOOSE j \in at : \A m \in at : j <= m
          IN SubSeq(str, 1, k - 1) \o SubSeq(str, k + Len(pat), Len(str))

\* str.split(ch)
RECURSIVE Split(_, _)
Split(str, ch) ==
  IF \A k \in 1..Len(str) : str[k] # ch THEN <<str>>
  ELSE LET c == CHOOSE k \in 1..Len(str) : str[k] = ch /\ \A j \in 1..(k - 1) : str[j] # ch
       IN <<SubSeq(str, 1, c - 1)>> \o Split(SubSeq(str, c + 1, Len(str)), ch)

\* parts.join(ch)
RECURSIVE Join(_, _)
Join(parts, ch) ==
  IF parts = <<>> THEN <<>>
  ELSE IF Len(parts) = 1 THEN parts[1]
  ELSE parts[1] \o <<ch>> \o Join(Tail(parts), ch)

\* getAudioFilesForTranscription: broker_id, call_id and the transcript file
\* name of an audio file name (parts.length >= 2 holds for every name with an
\* underscore)
ParseAudioFileName(filename) ==
  LET parts    == Split(ReplaceFirst(filename, DotWav), "_")
      brokerId == parts[1]
      callId   == Join(Tail(parts), "_")
  IN [filename |-> filename, broker_id |-> brokerId, call_id |-> callId,
      transcriptFile |-> brokerId \o <<"_">> \o callId \o <<".", "t", "x", "t">>]

InitFileName ==
  /\ op = "filename"
  /\ input \in [broker_id : SeqsUpTo(IdChars, MaxIdLen + 1),
                call_id : SeqsUpTo(IdChars, MaxIdLen - 1)]
  /\ minDuration = 0
  /\ output = <<>>
  /\ output2 = <<>>
  /\ ppc = "start"
  /\ IdleDownload
  /\ IdleTranscribe
  /\ IdleFetch
  /\ IdleStage3

\* downloadAudio(input, outputDir) names the file it writes
CallDownloadAudio ==
  /\ op = "filename"
  /\ ppc = "start"
  /\ output' = AudioFileName(input)
  /\ ppc' = "once"
  /\ UNCHANGED <<op, dvars, tvars, fvars, svars, input, minDuration, output2>>

\* getAudioFilesForTranscription reads the file's name from audioDir
CallGetAudioFiles ==
  /\ op = "filename"
  /\ ppc = "once"
  /\ output2' = ParseAudioFileName(output.filename)
  /\ ppc' = "twice"
  /\ UNCHANGED <<op, dvars, tvars, fvars, svars, input, minDuration, output>>

SpecFileName == InitFileName /\ [][CallDownloadAudio \/ CallGetAudioFiles]_vars

\* ------------------------------------- AssemblyAIService.formatTranscript
\* strings are sequences of one-character strings
DigitChars == <<"0", "1", "2", "3", "4", "5", "6", "7", "8", "9">>

\* Number.prototype.toString of a non-negative integer
RECURSIVE NumberToString(_)
NumberToString(n) ==
  IF n < 10 THEN <<DigitChars[n + 1]>>
  ELSE NumberToString(n \div 10) \o <<DigitChars[(n % 10) + 1]>>

\* (variant: no padding)
PadStartNone(str) == str

\* padStart(2, '0')
PadStart2(str) == IF Len(str) < 2 THEN <<"0">> \o str ELSE str

\* the timestamp of an utterance that starts at startMs
Timestamp(startMs) ==
  LET totalSeconds == startMs \div 1000
      hours        == totalSeconds \div 3600
      minutes      == (totalSeconds % 3600) \div 60
      seconds      == totalSeconds % 60
  IN IF hours > 0
     THEN NumberToString(hours) \o <<":">> \o PadStart2(NumberToString(minutes))
            \o <<":">> \o PadStart2(NumberToString(seconds))
     ELSE NumberToString(minutes) \o <<":">> \o PadStart2(NumberToString(seconds))

\* `[${timestamp}] ${speaker}: ${utterance.text}`
FormatLine(u) ==
  [timestamp |-> <<"[">> \o Timestamp(u.start) \o <<"]">>,
   speaker |-> <<"Speaker ", u.speaker>>, text |-> u.text]

\* formatTranscript: the text when there are no utterances, else the lines
\* (the value is the sequence of the lines that join('\n') puts together)
FormatTranscript(transcript) ==
  IF Len(transcript.utterances) = 0
  THEN (IF transcript.text # "" THEN <<transcript.text>>
        ELSE <<"No transcript available">>)
  ELSE [k \in 1..Len(transcript.utterances) |-> FormatLine(transcript.utterances[k])]

\* start times around the second, the minute, the hour and the tenth hour
StartTimes ==
  {h * 3600000 + m * 60000 + sec * 1000 + ms :
     h \in {0, 1, 10}, m \in {0, 1, 59}, sec \in {0, 1, 9, 10, 59}, ms \in {0, 999}}

Transcripts ==
  [utterances : SeqsUpTo([start : StartTimes, speaker : {"A"}, text : {"hi"}], 1),
   text : {"", "hi"}]

InitFormat ==
  /\ op = "format"
  /\ input \in Transcripts
  /\ minDuration = 0
  /\ output = <<>>
  /\ output2 = <<>>
  /\ ppc = "start"
  /\ IdleDownload
  /\ IdleTranscribe
  /\ IdleFetch
  /\ IdleStage3

\* formatTranscript(input)
CallFormatTranscript ==
  /\ op = "format"
  /\ ppc = "start"
  /\ output' = FormatTranscript(input)
  /\ ppc' = "once"
  /\ UNCHANGED <<op, dvars, tvars, fvars, svars, input, minDuration, output2>>

SpecFormat == InitFormat /\ [][CallFormatTranscript]_vars

\* ------------------------------------------- stage 1 route (POST handler)
\* getTimezoneOffset of the process, as hours to add to a UTC instant: none in
\* "UTC"; in "America/New_York" -4 until the clocks go back at 06:00 UTC of
\* day 1 and -5 from then on
UtcOffset(z, t) == IF z = "UTC" THEN 0 ELSE IF t < 30 THEN -4 ELSE -5

Zones == {"UTC", "America/New_York"}

\* new Date(startDate): a date-only string is read as 00:00 UTC of that day
ParseDate(d) == 24 * d

\* date.toISOString().split('T')[0]: the UTC day of the instant
IsoDate(t) == t \div 24

\* current.setDate(current.getDate() + 1): one day is added to the local
\* calendar fields and the local time is read back with the offset in force
\* at the new instant
AddLocalDay(z, t) ==
  LET local == t + UtcOffset(z, t) + 24
      early == local - UtcOffset(z, 0)
  IN IF UtcOffset(z, early) = UtcOffset(z, 0) THEN early
     ELSE local - UtcOffset(z, early)

RECURSIVE DatesFrom(_, _, _)
DatesFrom(z, current, endDate) ==
  IF current <= endDate
  THEN <<current>> \o DatesFrom(z, AddLocalDay(z, current), endDate)
  ELSE <<>>

\* getDateRange(start, end)
GetDateRange(z, startDate, endDate) == DatesFrom(z, startDate, endDate)

\* the raw entries the call-log endpoint returns for the window of UTC day d:
\* a call that lasts minDuration, and an entry of the same call that is shorter
RawCalls(d) ==
  {[call_id |-> "c1", duration |-> dur, start_time |-> d,
    from |-> [name |-> "Ann", number |-> "+111"], recording |-> [url |-> "url"]] :
     dur \in {FetchMinDuration, FetchMinDuration - 1}}

\* Net2PhoneService.extractRelevantData, for the fields the route reads
ExtractRelevantData(entries) ==
  [k \in 1..Len(entries) |->
     [call_id |-> entries[k].call_id, from_number |-> entries[k].from.number,
      from_name |-> entries[k].from.name, duration |-> entries[k].duration,
      recording_url |-> entries[k].recording.url, date |-> entries[k].start_time]]

LongEnough(call) == call.duration >= FetchMinDuration

\* the calls one page adds to dateCalls: extracted, deduplicated within the
\* page, filtered by duration >= minDuration
PageCalls(result) ==
  SelectSeq(DeduplicateCalls(ExtractRelevantData(result)), LongEnough)

\* (variant: the next cursor alone decides)
HasMoreByCursor(answer, size) == answer.next

\* (variant: the length of the page alone decides)
HasMoreByLength(answer, size) == Len(answer.result) >= size

\* hasMore after the page: callData.next is set and the page is full
HasMore(answer, size) == answer.next /\ Len(answer.result) >= size

\* the answers of the call-log endpoint to the request for page pg of UTC
\* day d: a failure (401 for a token the provider no longer accepts, 500 for
\* every other non-2xx answer or thrown fetch), or a page of at most size
\* entries with or without a next cursor; the provider's list ends at page
\* MaxPages
PageAnswers(size, pg, d) ==
  {[ok |-> FALSE, status |-> st, result |-> <<>>, next |-> FALSE] : st \in {401, 500}}
  \cup {a \in [ok : {TRUE}, status : {200}, result : SeqsUpTo(RawCalls(d), size),
               next : BOOLEAN] :
          pg < MaxPages \/ ~a.next}

\* getCallLogs is called: without a cached token the token request goes out
\* first, else the page request
GetCallLogsEntry(tok) == IF tok = "null" THEN "token" ELSE "page"

DayEntry(t, cs, st) ==
  [date |-> IsoDate(t), calls |-> cs, callCount |-> Len(cs), status |-> st]

\* the for loop enters its body for dates[d] and runs to the first await,
\* that of the request getCallLogs sends
StartDay(d, tok) ==
  /\ day' = d
  /\ page' = 1
  /\ dateCalls' = <<>>
  /\ pageLog' = <<>>
  /\ fpc' = GetCallLogsEntry(tok)
  /\ requests' = Inc(requests)

\* (variant: the calls of the pages fetched before the failure are kept)
DayFailedKeepsCalls(tok) ==
  /\ dailyResults' = Append(dailyResults, DayEntry(dates[day], <<>>, "error"))
  /\ IF day < Len(dates)
     THEN StartDay(day + 1, tok)
     ELSE /\ fpc' = "done"
          /\ UNCHANGED <<day, page, dateCalls, pageLog, requests>>
  /\ allCalls' = allCalls \o dateCalls

\* the catch of the loop body: the error entry is pushed and the loop goes on
\* with the next date, or the handler returns its response
DayFailed(tok) ==
  /\ dailyResults' = Append(dailyResults, DayEntry(dates[day], <<>>, "error"))
  /\ IF day < Len(dates)
     THEN StartDay(day + 1, tok)
     ELSE /\ fpc' = "done"
          /\ UNCHANGED <<day, page, dateCalls, pageLog, requests>>
  /\ UNCHANGED allCalls

PageSizeOptions == {1, 2}

InitFetch ==
  /\ op = "fetch"
  /\ zone \in Zones
  /\ startDay \in 1..MaxDays
  /\ endDay \in 1..MaxDays
  /\ pageSize \in PageSizeOptions
  /\ fpc = "start"
  /\ dates = <<>>
  /\ day = 0
  /\ page = 0
  /\ dateCalls = <<>>
  /\ allCalls = <<>>
  /\ dailyResults = <<>>
  /\ pageLog = <<>>
  /\ n2pToken = "null"
  /\ requests = 0
  /\ IdleDownload
  /\ IdleTranscribe
  /\ IdlePure
  /\ IdleStage3

\* POST is called: the range is validated, the dates are listed and the loop
\* runs into the first getCallLogs
FetchCalls ==
  /\ op = "fetch"
  /\ fpc = "start"
  /\ IF ParseDate(startDay) > ParseDate(endDay)
     THEN /\ fpc' = "invalid"
          /\ UNCHANGED <<dates, day, page, dateCalls, pageLog, requests>>
     ELSE /\ dates' = GetDateRange(zone, ParseDate(startDay), ParseDate(endDay))
          /\ StartDay(1, n2pToken)
  /\ UNCHANGED <<op, dvars, tvars, pvars, svars, zone, startDay, endDay, pageSize,
                 allCalls, dailyResults, n2pToken>>

\* the token request of getCallLogs is answered
FetchTokenResponse(ok) ==
  /\ op = "fetch"
  /\ fpc = "token"
  /\ IF ok
     THEN /\ n2pToken' = "token"
          /\ fpc' = "page"
          /\ requests' = Inc(requests)
          /\ UNCHANGED <<day, page, dateCalls, allCalls, dailyResults, pageLog>>
     ELSE /\ DayFailed(n2pToken)
          /\ UNCHANGED n2pToken
  /\ UNCHANGED <<op, dvars, tvars, pvars, svars, zone, startDay, endDay, pageSize, dates>>

\* the call-log request for the current page is answered
PageResponse(a) ==
  /\ op = "fetch"
  /\ fpc = "page"
  /\ IF ~a.ok
     THEN DayFailed(n2pToken)
     ELSE LET cs == dateCalls \o PageCalls(a.result)
          IN IF HasMore(a, pageSize)
             THEN /\ dateCalls' = cs
                  /\ page' = page + 1
                  /\ pageLog' = Append(pageLog, [size |-> Len(a.result), next |-> a.next])
                  /\ fpc' = GetCallLogsEntry(n2pToken)
                  /\ requests' = Inc(requests)
                  /\ UNCHANGED <<day, allCalls, dailyResults>>
             ELSE /\ dateCalls' = cs
                  /\ page' = page + 1
                  /\ pageLog' = Append(pageLog, [size |-> Len(a.result), next |-> a.next])
                  /\ allCalls' = allCalls \o cs
                  /\ dailyResults' = Append(dailyResults, DayEntry(dates[day], cs, "success"))
                  /\ fpc' = IF day < Len(dates) THEN "delay" ELSE "done"
                  /\ UNCHANGED <<day, requests>>
  /\ UNCHANGED <<op, dvars, tvars, pvars, svars, zone, startDay, endDay, pageSize, dates,
                 n2pToken>>

\* the rate limiting delay between two dates has elapsed
InterDayDelay ==
  /\ op = "fetch"
  /\ fpc = "delay"
  /\ StartDay(day + 1, n2pToken)
  /\ UNCHANGED <<op, dvars, tvars, pvars, svars, zone, startDay, endDay, pageSize, dates,
                 allCalls, dailyResults, n2pToken>>

NextFetch ==
  \/ FetchCalls
  \/ \E ok \in BOOLEAN : FetchTokenResponse(ok)
  \/ \E a \in (IF fpc = "page" THEN PageAnswers(pageSize, page, IsoDate(dates[day]))
               ELSE {}) : PageResponse(a)
  \/ InterDayDelay

SpecFetch == InitFetch /\ [][NextFetch]_vars

\* ------------------------------------------- stage 3 route (POST and GET)
\* the POST requests and the GET requests of a run
Posts == {1, 2}
Streams == {1}

\* the session keys: the values of Date.now() at which a request can create
\* its session, and 0, a key that no request creates
SessionKeys == 0..Cardinality(Posts)

\* file names by their shape: "safe" as 800_call1.wav, "dots" as 800..1.wav
\* (legal characters only), "mp3" as 800_1.mp3
FilenameShapes == {"safe", "dots", "mp3"}

\* /^[A-Za-z0-9._-]+\.wav$/i.test(filename)
MatchesPattern(f) == f \in {"safe", "dots"}

\* filename.includes('..') || filename.includes('/') || filename.includes('\\')
HasTraversal(f) == f \in {"dots"}

\* (variant: no validation of the file names)
ValidFilenameUnchecked(f) == TRUE

\* the loop over audioFiles passes a file name
ValidFilename(f) == MatchesPattern(f) /\ ~HasTraversal(f)

\* the bodies of the POST requests: audioFiles all named in one shape, of
\* which pending files have no transcript on disk and transcribed files have;
\* either one file with a transcript or up to MaxPending files without
PostInputs ==
  {in \in [names : FilenameShapes, pending : 0..MaxPending, transcribed : 0..1] :
     /\ in.transcribed = 1 <=> in.pending = 0
     /\ in.names # "safe" => in.pending = 1}

\* Map.set and Map.delete on progressMap
SessionSet(m, key, v) == [k \in DOMAIN m \cup {key} |-> IF k = key THEN v ELSE m[k]]

SessionDelete(m, key) == [k \in DOMAIN m \ {key} |-> m[k]]

\* progressMap.get(sessionId) || []
SessionGet(m, key) == IF key \in DOMAIN m THEN m[key] ELSE <<>>

\* (variant: a session with nothing in its list counts as gone)
SessionGoneWhenEmpty(m, key) == SessionGet(m, key) = <<>>

\* !progressMap.has(sessionId)
SessionGone(m, key) == key \notin DOMAIN m

\* the TranscriptionProgress the callback builds for the c-th settled file of
\* request p (the file names of different requests differ)
Progress(p, c, total) ==
  [filename |-> <<p, c>>, status |-> IF c = total THEN "completed" ELSE "transcribing"]

\* progress.slice(lastSentCount)
Slice(progress, from) == SubSeq(progress, from + 1, Len(progress))

InitStage3 ==
  /\ op = "stage3"
  /\ now = 1
  /\ progressMap = <<>>
  /\ appended = [k \in SessionKeys |-> <<>>]
  /\ post \in [Posts -> {[pc |-> "start", input |-> in, sessionId |-> 0, completed |-> 0,
                          timer |-> "none", ttl |-> 0, response |-> "none"] :
                            in \in PostInputs}]
  /\ stream = [s \in Streams |->
                 [pc |-> "idle", sessionId |-> 0, lastSentCount |-> 0, sent |-> <<>>,
                  due |-> 0, closes |-> 0, aborted |-> FALSE]]
  /\ IdleDownload
  /\ IdleTranscribe
  /\ IdlePure
  /\ IdleFetch

\* POST: request.json() has resolved and the handler runs to its first await
\* (transcribeBatch) or to a return; fsOk is whether the calls of fs succeed
PostHandler(p, fsOk) ==
  /\ op = "stage3"
  /\ post[p].pc = "start"
  /\ IF ~ValidFilename(post[p].input.names)
     THEN /\ post' = [post EXCEPT ![p].pc = "returned", ![p].response = "invalid"]
          /\ UNCHANGED progressMap
     ELSE /\ progressMap' = SessionSet(progressMap, now, <<>>)
          /\ post' = [post EXCEPT
               ![p].sessionId = now,
               ![p].pc = IF fsOk /\ post[p].input.pending > 0 THEN "batch" ELSE "returned",
               ![p].response = IF ~fsOk THEN "error"
                               ELSE IF post[p].input.pending = 0 THEN "allTranscribed"
                               ELSE "none"]
  /\ UNCHANGED <<op, dvars, tvars, pvars, fvars, now, appended, stream>>

\* a file of the request's batch settles: transcribeBatch invokes the callback
FileSettled(p) ==
  /\ op = "stage3"
  /\ post[p].pc = "batch"
  /\ post[p].completed < post[p].input.pending
  /\ LET key == post[p].sessionId
         ev  == Progress(p, post[p].completed + 1, post[p].input.pending)
     IN /\ progressMap' = SessionSet(progressMap, key, Append(SessionGet(progressMap, key), ev))
        /\ appended' = [appended EXCEPT ![key] = Append(@, ev)]
  /\ post' = [post EXCEPT ![p].completed = @ + 1]
  /\ UNCHANGED <<op, dvars, tvars, pvars, fvars, now, stream>>

\* transcribeBatch returns: the cleanup timer is set and the response is sent
BatchReturned(p) ==
  /\ op = "stage3"
  /\ post[p].pc = "batch"
  /\ post[p].completed = post[p].input.pending
  /\ post' = [post EXCEPT ![p].pc = "returned", ![p].response = "completed",
                          ![p].timer = "set", ![p].ttl = SessionTtl]
  /\ UNCHANGED <<op, dvars, tvars, pvars, fvars, now, progressMap, appended, stream>>

\* the cleanup timer of request p fires: progressMap.delete(sessionId)
CleanupTimer(p) ==
  /\ op = "stage3"
  /\ post[p].timer = "set"
  /\ post[p].ttl = 0
  /\ progressMap' = SessionDelete(progressMap, post[p].sessionId)
  /\ post' = [post EXCEPT ![p].timer = "fired"]
  /\ UNCHANGED <<op, dvars, tvars, pvars, fvars, now, appended, stream>>

\* GET ?sessionId=key: the stream is built, start() sets the poll timer and
\* registers the abort listener
GetStream(s, key) ==
  /\ op = "stage3"
  /\ stream[s].pc = "idle"
  /\ stream' = [stream EXCEPT ![s].pc = "open", ![s].sessionId = key,
                              ![s].due = StreamInterval]
  /\ UNCHANGED <<op, dvars, tvars, pvars, fvars, now, progressMap, appended, post>>

\* the callback of setInterval runs
Poll(s) ==
  /\ op = "stage3"
  /\ stream[s].pc = "open"
  /\ stream[s].due = 0
  /\ LET key      == stream[s].sessionId
         progress == SessionGet(progressMap, key)
         more     == Len(progress) > stream[s].lastSentCount
         gone     == SessionGone(progressMap, key)
     IN stream' = [stream EXCEPT
          ![s].sent = IF more THEN @ \o Slice(progress, stream[s].lastSentCount) ELSE @,
          ![s].lastSentCount = IF more THEN Len(progress) ELSE @,
          ![s].pc = IF gone THEN "closed" ELSE "open",
          ![s].closes = IF gone THEN @ + 1 ELSE @,
          ![s].due = IF gone THEN 0 ELSE StreamInterval]
  /\ UNCHANGED <<op, dvars, tvars, pvars, fvars, now, progressMap, appended, post>>

\* request.signal fires abort: clearInterval(interval); controller.close()
Abort(s) ==
  /\ op = "stage3"
  /\ stream[s].pc \in {"open", "closed"}
  /\ ~stream[s].aborted
  /\ stream' = [stream EXCEPT ![s].aborted = TRUE, ![s].pc = "closed",
                              ![s].closes = @ + 1, ![s].due = 0]
  /\ UNCHANGED <<op, dvars, tvars, pvars, fvars, now, progressMap, appended, post>>

\* one tick of time passes: possible when no timer is due; the timers that
\* are set come one tick closer. Only the equality of two values of Date.now()
\* is read by the program, so the value moves on only when it has been used
Tick ==
  /\ op = "stage3"
  /\ \A p \in Posts : post[p].timer = "set" => post[p].ttl > 0
  /\ \A s \in Streams : stream[s].pc = "open" => stream[s].due > 0
  /\ post' = [p \in Posts |->
                IF post[p].timer = "set" THEN [post[p] EXCEPT !.ttl = @ - 1] ELSE post[p]]
  /\ stream' = [s \in Streams |->
                  IF stream[s].pc = "open" THEN [stream[s] EXCEPT !.due = @ - 1]
                  ELSE stream[s]]
  /\ now' = IF \E p \in Posts : post[p].sessionId = now THEN now + 1 ELSE now
  /\ UNCHANGED <<op, dvars, tvars, pvars, fvars, progressMap, appended>>

NextStage3 ==
  \/ \E p \in DOMAIN post, fsOk \in BOOLEAN : PostHandler(p, fsOk)
  \/ \E p \in DOMAIN post : FileSettled(p)
  \/ \E p \in DOMAIN post : BatchReturned(p)
  \/ \E p \in DOMAIN post : CleanupTimer(p)
  \/ \E s \in DOMAIN stream, key \in SessionKeys : GetStream(s, key)
  \/ \E s \in DOMAIN stream : Poll(s)
  \/ \E s \in DOMAIN stream : Abort(s)
  \/ Tick

SpecStage3 == InitStage3 /\ [][NextStage3]_vars

\* every request's handler runs, every file of a batch settles, every timer
\* that is due fires and time passes; whether and when a client opens or
\* aborts a stream is the client's choice
FairStage3 ==
  /\ SpecStage3
  /\ WF_vars(Tick)
  /\ \A p \in Posts :
       /\ WF_vars(\E fsOk \in BOOLEAN : PostHandler(p, fsOk))
       /\ WF_vars(FileSettled(p))
       /\ WF_vars(BatchReturned(p))
       /\ WF_vars(CleanupTimer(p))
  /\ \A s \in Streams : WF_vars(Poll(s))

\* the two stages that validate their request: the fetch stage and the
\* transcription stage
SpecValidation == (InitFetch \/ InitStage3) /\ [][NextFetch \/ NextStage3]_vars

\* ------------------------------------------------ both batch operations
Init == InitDownload \/ InitTranscribe

Next == NextDownload \/ NextTranscribe

Spec == Init /\ [][Next]_vars

\* each request is eventually answered, each timer eventually fires and each
\* continuation eventually runs
FairDownload ==
  /\ SpecDownload
  /\ WF_vars(DownloadBatch)
  /\ WF_vars(ChunkSettled)
  /\ WF_vars(DelayElapsed)
  /\ \A w \in 1..MaxCalls :
       /\ WF_vars(w \in DOMAIN dl /\ \E ok \in BOOLEAN : TokenResponse(w, ok))
       /\ WF_vars(w \in DOMAIN dl /\ \E r \in LookupResponses : LookupResponse(w, r))
       /\ WF_vars(w \in DOMAIN dl /\ \E ok \in BOOLEAN : RefreshResponse(w, ok))
       /\ WF_vars(w \in DOMAIN dl /\ \E r \in BodyResponses : BodyResponse(w, r))

\* transcribeBatch with its timers and continuations scheduled: every timer
\* that was set fires, every continuation runs, and the upload and create
\* requests are answered; whether and when the status endpoint answers is the
\* provider's choice (fetch in getTranscriptionStatus carries no timeout and
\* no abort signal)
FairTimers ==
  /\ SpecTranscribe
  /\ WF_vars(TranscribeBatch)
  /\ WF_vars(TranscribeChunkSettled)
  /\ \A w \in 1..MaxFiles :
       /\ WF_vars(w \in DOMAIN tr /\ \E r \in UploadAnswers : UploadResponse(w, r))
       /\ WF_vars(w \in DOMAIN tr /\ \E r \in CreateAnswers : CreateResponse(w, r))
       /\ WF_vars(w \in DOMAIN tr /\ PollTimer(w))

\* transcribeBatch called with any limit, every request answered, every
\* timer fired and every continuation run
FairAnyLimit ==
  /\ SpecAnyLimit
  /\ WF_vars(TranscribeBatch)
  /\ WF_vars(TranscribeChunkSettled)
  /\ \A w \in 1..MaxFiles :
       /\ WF_vars(w \in DOMAIN tr /\ \E r \in UploadAnswers : UploadResponse(w, r))
       /\ WF_vars(w \in DOMAIN tr /\ \E r \in CreateAnswers : CreateResponse(w, r))
       /\ WF_vars(w \in DOMAIN tr /\ \E a \in StatusAnswers, d \in {0, NetLatency} :
                                       StatusResponse(w, a, d))
       /\ WF_vars(w \in DOMAIN tr /\ PollTimer(w))

\* ------------------------------------------------------------ properties
ChunkOf(j, size) == (j - 1) \div size

InFlight(st) == {j \in DOMAIN st : st[j] \notin {"idle", "done"}}

CountFailed(fl, c) == Cardinality({k \in 1..Len(fl) : fl[k].call_id = c})

TimedOut(w) == tr[w] = "done" /\ lastStatus[w] \in {"queued", "processing"}

\* C1: when downloadBatch has returned, every input call is recorded in
\* exactly one of successful and failed (counted per call_id with its
\* multiplicity), so the two lengths sum to the number of input calls
C1_ExhaustivePartition ==
  (op = "download" /\ pc = "done") =>
    /\ Len(successful) + Len(failed) = Len(calls)
    /\ \A c \in CallIds :
         Count(successful, c) + CountFailed(failed, c) = Count(calls, c)

C1_Witness ==
  /\ op = "download" /\ pc = "done"
  /\ Len(successful) >= 1 /\ Len(failed) >= 2
  /\ \E a, b \in DOMAIN calls :
       a # b /\ calls[a] = calls[b] /\ CountFailed(failed, calls[a]) = 2

\* C2: one getRecordingInfo call sends at most 2 lookup requests and does at
\* most 1 token refresh
C2_OneRefreshOneRetry ==
  op = "download" =>
    \A w \in DOMAIN dl : lookups[w] <= 2 /\ refreshes[w] <= 1

\* C3: downloadBatch eventually returns, whatever the provider answers
C3_BatchReturns == <>(pc = "done")

\* C4: no item of a chunk is started before every item of all earlier chunks
\* has settled, in downloadBatch and in transcribeBatch
C4_ChunksInOrder ==
  /\ op = "download" =>
       \A j, k \in DOMAIN dl :
         (dl[j] # "idle" /\ ChunkOf(k, batchSize) < ChunkOf(j, batchSize))
           => dl[k] = "done"
  /\ op = "transcribe" =>
       \A j, k \in DOMAIN tr :
         (tr[j] # "idle" /\ ChunkOf(k, concurrentLimit) < ChunkOf(j, concurrentLimit))
           => tr[k] = "done"

C4_Witness ==
  /\ op = "transcribe"
  /\ \E j, k \in DOMAIN tr :
       /\ ChunkOf(k, concurrentLimit) < ChunkOf(j, concurrentLimit)
       /\ tr[j] \in {"poll", "sleep"}
       /\ trValue[k].success = FALSE /\ trValue[k].promise = "fulfilled"

\* C5: at most concurrentLimit transcriptions, and at most batchSize
\* downloads, are started and not yet settled
C5_BoundedInFlight ==
  /\ op = "transcribe" => Cardinality(InFlight(tr)) <= concurrentLimit
  /\ op = "download" => Cardinality(InFlight(dl)) <= batchSize

C5_Witness ==
  /\ op = "transcribe"
  /\ concurrentLimit < Len(files)
  /\ Cardinality(InFlight(tr)) = concurrentLimit
  /\ concurrentLimit >= 2

\* C6: transcribeBatch returns one result per input file, the k-th result
\* being the outcome of the k-th input file
C6_ResultsInInputOrder ==
  (op = "transcribe" /\ tpc = "done") =>
    /\ Len(results) = Len(files)
    /\ \A k \in DOMAIN files :
         /\ results[k].file = files[k]
         /\ results[k].success = (lastStatus[k] = "completed")

C6_Witness ==
  /\ op = "transcribe" /\ tpc = "done"
  /\ Len(files) >= 2
  /\ progressLog[1].current = files[2]
  /\ results[1].success /\ ~results[2].success

C8_SingleTokenRequest ==
  (op = "download" /\ pc # "start" /\ Len(calls) >= 1 /\ ~had401 /\ ~tokenError)
    => tokenRequests = 1

\* C9: at most one token refresh is in flight at any moment
C9_SingleRefreshInFlight ==
  op = "download" => Cardinality({w \in DOMAIN dl : dl[w] = "refresh"}) <= 1

\* the state part of C10: a status request is sent only within the budget
\* and the wait is never asleep more than one request latency past it; a wait
\* that ended while the job was still queued or processing ended as a failed
\* file with the Timeout error, which differs from the error of every file
\* whose job the provider reported as error and is what the batch result
\* carries
C10_TimeoutOutcome ==
  op = "transcribe" =>
    \A w \in DOMAIN tr :
      /\ tr[w] = "poll" => elapsed[w] < MaxWaitTime
      /\ tr[w] = "sleep" => elapsed[w] < MaxWaitTime + NetLatency
      /\ TimedOut(w) =>
           /\ ~trValue[w].success
           /\ trValue[w].error = TranscribeFileError(TimeoutError)
           /\ \A v \in DOMAIN tr :
                (tr[v] = "done" /\ lastStatus[v] = "error")
                  => trValue[v].error # trValue[w].error
           /\ tpc = "done" => results[w] = trValue[w]

\* the step part of C10: a sleeping wait ends only when the budget has
\* elapsed, and then with the Timeout error
C10_TimeoutStep ==
  \A w \in DOMAIN tr :
    (tr[w] = "sleep" /\ tr'[w] = "done") =>
      /\ elapsed[w] + PollInterval >= MaxWaitTime
      /\ trValue'[w].error = TranscribeFileError(TimeoutError)

\* C10: a job that never reports completed or error is waited for until the
\* budget has elapsed and then reported as failed with the Timeout error,
\* which no job the provider reported as error carries
C10_TimeoutDistinguishable == []C10_TimeoutOutcome /\ [][C10_TimeoutStep]_vars

C10_Witness ==
  /\ op = "transcribe" /\ tpc = "done"
  /\ \E w, v \in DOMAIN tr :
       /\ TimedOut(w)
       /\ lastStatus[v] = "error"
       /\ results[w].error = TranscribeFileError(TimeoutError)
       /\ results[v].error = <<>>

\* C11: every waitForTranscription invocation eventually ends, also when a
\* status request is never answered
C11_WaitEnds ==
  \A w \in 1..MaxFiles :
    (w \in DOMAIN tr /\ tr[w] \in {"poll", "sleep"}) ~> (w \in DOMAIN tr /\ tr[w] = "done")

\* C12: once the provider has reported a terminal status for a file, both the
\* formatted transcript and the raw JSON of the file have been written, for
\* status completed and for status error
C12_FilesWrittenOnTerminal ==
  op = "transcribe" =>
    \A w \in DOMAIN tr :
      (tr[w] = "done" /\ TerminalStatus(lastStatus[w]))
        => written[w] = {"transcriptFile", "rawTranscriptFile"}

\* C13: onProgress is invoked once per settled file and never otherwise, the
\* k-th invocation carrying completed = k; when the batch has returned it has
\* been invoked once for each of the N files
C13_ProgressOncePerFile ==
  op = "transcribe" =>
    /\ Len(progressLog) = Cardinality({w \in DOMAIN tr : tr[w] = "done"})
    /\ \A k \in DOMAIN progressLog :
         /\ progressLog[k].completed = k
         /\ progressLog[k].total = Len(files)
    /\ \A w \in DOMAIN tr :
         Cardinality({k \in DOMAIN progressLog : progressLog[k].current = files[w]})
           = IF tr[w] = "done" THEN 1 ELSE 0
    /\ tpc = "done" => Len(progressLog) = Len(files)

C13_Witness ==
  /\ op = "transcribe" /\ tpc = "done"
  /\ Len(files) = MaxFiles /\ concurrentLimit = 2
  /\ progressLog[1].current = files[2]
  /\ progressLog[2].current = files[1]
  /\ \E w \in DOMAIN tr : lastStatus[w] \in {"queued", "processing"}

IdsOf(cs) == {cs[k].call_id : k \in 1..Len(cs)}

CountId(cs, c) == Cardinality({k \in 1..Len(cs) : cs[k].call_id = c})

\* the positions of the records with call_id c, and the record kept for c
PositionsOf(cs, c) == {k \in 1..Len(cs) : cs[k].call_id = c}

KeptFor(out, c) == out[CHOOSE k \in 1..Len(out) : out[k].call_id = c]

FirstOf(S) == CHOOSE k \in S : \A j \in S : k <= j

\* C17: the result of deduplicateCalls is no longer than its input, holds
\* every call_id of the input exactly once and no other, and deduplicating
\* the result again returns the result
C17_DedupUniqueIdempotent ==
  (op = "dedup" /\ ppc # "start") =>
    /\ Len(output) <= Len(input)
    /\ \A c \in IdsOf(input) : CountId(output, c) = 1
    /\ IdsOf(output) \subseteq IdsOf(input)
    /\ ppc = "twice" => output2 = output

C17_Witness ==
  /\ op = "dedup" /\ ppc = "twice"
  /\ Len(input) = MaxCalls /\ Len(output) = 2
  /\ input[1].call_id = input[MaxCalls].call_id
  /\ output[1] = input[MaxCalls] /\ output[1] # input[1]

\* C18: of the records sharing a call_id the first-seen one is kept, unless it
\* is poorer than a later record with both a name and a recording; then the
\* first such record is kept (records that both have a name and a recording
\* are equally rich, so the earlier of them stays)
C18_RicherElseFirstSeen ==
  (op = "dedup" /\ ppc # "start") =>
    \A c \in IdsOf(input) :
      LET pos   == PositionsOf(input, c)
          first == FirstOf(pos)
          rich  == {k \in pos : HasNameAndRecording(input[k])}
      IN KeptFor(output, c) =
           IF HasNameAndRecording(input[first]) \/ rich = {}
           THEN input[first]
           ELSE input[FirstOf(rich)]

\* C19: filterCallsForDownload counts every call under exactly one of
\* skippedNoCallId (empty call_id), skippedTooShort (duration < minDuration),
\* skippedNoRecording (empty or blank recording_url) and eligible, the
\* reasons tested in this order, and the four sizes sum to the input size
C19_FilterPartition ==
  (op = "filter" /\ ppc = "once") =>
    LET P == 1..Len(input)
        noId  == {k \in P : input[k].call_id = ""}
        short == {k \in P \ noId : input[k].duration < minDuration}
        noRec == {k \in (P \ noId) \ short : input[k].recording_url \in {"", " "}}
        rest  == ((P \ noId) \ short) \ noRec
    IN /\ output.skippedNoCallId = Cardinality(noId)
       /\ output.skippedTooShort = Cardinality(short)
       /\ output.skippedNoRecording = Cardinality(noRec)
       /\ Len(output.eligible) = Cardinality(rest)
       /\ \E f \in [1..Len(output.eligible) -> rest] :
            /\ \A a, b \in 1..Len(output.eligible) : a < b => f[a] < f[b]
            /\ \A k \in 1..Len(output.eligible) : output.eligible[k] = input[f[k]]
       /\ Len(output.eligible) + output.skippedNoCallId + output.skippedTooShort
            + output.skippedNoRecording = Len(input)

C19_Witness ==
  /\ op = "filter" /\ ppc = "once"
  /\ Len(input) = MaxCalls
  /\ \E a, b, c \in 1..Len(input) :
       /\ input[a].call_id = "" /\ input[a].duration < minDuration
       /\ input[a].recording_url = ""
       /\ input[b].call_id # "" /\ input[b].duration = minDuration
       /\ input[b].recording_url = "url"
       /\ input[c].call_id # "" /\ input[c].duration > minDuration
       /\ input[c].recording_url = " "
  /\ output.skippedNoCallId = 1 /\ output.skippedNoRecording = 1
  /\ Len(output.eligible) = 1

\* the state part of C20: every DownloadResult returned has a size above 0
C20_ResultsNonEmpty ==
  op = "download" => \A e \in emitted : e.size > 0

\* the step part of C20: a download whose body has zero bytes ends the call
\* as failed, emits no DownloadResult and leaves no file of the call on disk
C20_ZeroBytesStep ==
  \A w \in DOMAIN dl :
    BodyResponse(w, "zeroBytes") =>
      /\ failed' = Append(failed, [call_id |-> calls[w], error |-> "Download failed"])
      /\ successful' = successful
      /\ emitted' = emitted
      /\ calls[w] \notin DOMAIN disk'

\* C20: downloadAudio returns only results of size > 0; a zero-byte body
\* makes the call fail and its file is gone when downloadAudio returns
C20_NoEmptyDownload == []C20_ResultsNonEmpty /\ [][C20_ZeroBytesStep]_vars

C20_Witness ==
  /\ op = "download" /\ pc = "done"
  /\ \E c \in CallIds :
       /\ [call_id |-> c, size |-> 1024000] \in emitted
       /\ CountFailed(failed, c) = 1
       /\ c \notin DOMAIN disk

\* C14: the response of a fetch over D days is a success and lists exactly D
\* per-day entries, for consecutive days from the start date on; the entry of
\* a day whose request failed is marked error and has no calls
C14_OneEntryPerDay ==
  (op = "fetch" /\ fpc = "done") =>
    /\ Len(dailyResults) = endDay - startDay + 1
    /\ \A k \in 1..Len(dailyResults) :
         /\ dailyResults[k].date = startDay + k - 1
         /\ dailyResults[k].status \in {"success", "error"}
         /\ dailyResults[k].status = "error" =>
              dailyResults[k].callCount = 0 /\ dailyResults[k].calls = <<>>

\* the day of the loop has ended with a success entry
DaySucceeded ==
  /\ fpc \in {"delay", "done"}
  /\ dailyResults # <<>>
  /\ dailyResults[Len(dailyResults)].status = "success"

\* C15 as stated: a day whose first page has exactly pageSize entries and
\* whose second page, if the provider is asked for it, has fewer entries is
\* fetched with exactly 2 page requests
C15_TwoPageRequests ==
  (op = "fetch" /\ DaySucceeded /\ pageLog[1].size = pageSize
   /\ (Len(pageLog) >= 2 => pageLog[2].size < pageSize))
    => Len(pageLog) = 2

\* C15 amended: a day whose first page has exactly pageSize entries and
\* carries a next cursor, and whose second page has fewer entries, is fetched
\* with exactly 2 page requests
C15_TwoPageRequestsWithCursor ==
  (op = "fetch" /\ DaySucceeded /\ pageLog[1].size = pageSize /\ pageLog[1].next
   /\ (Len(pageLog) >= 2 => pageLog[2].size < pageSize))
    => Len(pageLog) = 2

C15_Witness ==
  /\ op = "fetch" /\ DaySucceeded
  /\ Len(pageLog) = 2
  /\ pageLog[1].size = pageSize /\ pageLog[1].next
  /\ pageLog[2].size < pageSize /\ pageLog[2].next
  /\ Len(allCalls) = 2

\* C16: the call list a fetch returns holds each call_id at most once
C16_UniqueCallIds ==
  (op = "fetch" /\ fpc = "done") =>
    \A c \in IdsOf(allCalls) : CountId(allCalls, c) = 1

\* C21: a call whose audio file is already in outputDir is not downloaded
\* again: no lookup and no body request goes out for it (the calls taken are
\* those whose call_id no other input call shares, so that the file is not the
\* work of another worker of this run)
C21_ExistingAudioSkipped ==
  op = "download" =>
    \A w \in DOMAIN dl :
      (Count(calls, calls[w]) = 1 /\ calls[w] \in DOMAIN disk)
        => dl[w] \notin {"lookup", "body"}

\* C26: when no token can be obtained at the start of the batch (every token
\* request so far was refused and none was ever granted), downloadBatch does
\* not go on to report its calls one by one as failed
C26_AbortsWithoutToken ==
  (op = "download" /\ tokenError /\ ~had401 /\ accessToken = "null")
    => failed = <<>>

\* the number of chunks downloadBatch cuts n calls into
NumChunks(n, size) == (n + size - 1) \div size

\* C29: between two consecutive chunks downloadBatch waits once, for the
\* batchDelay the caller passed (0 included), and no call of the next chunk is
\* started during the wait; over k chunks that makes k-1 waits, none of them
\* after the last chunk
C29_DelayBetweenChunks ==
  (op = "download" /\ Len(calls) > 0) =>
    /\ \A k \in DOMAIN waits : waits[k] = batchDelay
    /\ pc = "delay" =>
         \A j \in DOMAIN dl : ChunkOf(j, batchSize) > ChunkOf(i + 1, batchSize)
                                => dl[j] = "idle"
    /\ pc \in {"await", "delay"} =>
         Len(waits) = ChunkOf(i + 1, batchSize) + (IF pc = "delay" THEN 1 ELSE 0)
    /\ pc = "done" => Len(waits) = NumChunks(Len(calls), batchSize) - 1

\* C22: every session a request creates in progressMap is eventually removed
\* from it, whichever way the request ends
C22_SessionsRemoved ==
  \A k \in SessionKeys : (k \in DOMAIN progressMap) ~> (k \notin DOMAIN progressMap)

\* the session of request p exists: created and not yet removed by its timer
SessionLive(p) == post[p].sessionId # 0 /\ post[p].timer # "fired"

\* C23: two requests whose sessions exist at the same time have different
\* session keys, so the log under a request's key holds only that request's
\* entries and the key is in progressMap as long as the request's session exists
C23_DistinctSessionKeys ==
  op = "stage3" =>
    /\ \A p, q \in Posts :
         (p # q /\ SessionLive(p) /\ SessionLive(q)) => post[p].sessionId # post[q].sessionId
    /\ \A p \in Posts :
         SessionLive(p) =>
           /\ post[p].sessionId \in DOMAIN progressMap
           /\ \A k \in DOMAIN progressMap[post[p].sessionId] :
                progressMap[post[p].sessionId][k].filename[1] = p

IsPrefix(a, b) == Len(a) <= Len(b) /\ \A k \in 1..Len(a) : a[k] = b[k]

\* the state part of C24: what a stream has emitted is a prefix of what was
\* appended under its session key: every entry at most once, in append order,
\* none left out before an emitted one
C24_EmittedIsPrefix ==
  op = "stage3" =>
    \A s \in Streams :
      stream[s].pc # "idle" => IsPrefix(stream[s].sent, appended[stream[s].sessionId])

\* the step part of C24: a poll that finds the session leaves every entry
\* appended so far emitted, the entries it emits being those appended since
\* the previous emission
C24_PollEmitsSuffix ==
  \A s \in Streams :
    (Poll(s) /\ stream[s].sessionId \in DOMAIN progressMap) =>
      /\ stream'[s].sent = appended[stream[s].sessionId]
      /\ stream'[s].sent =
           stream[s].sent \o Slice(appended[stream[s].sessionId], Len(stream[s].sent))

\* C24: across the polls of a stream every entry appended to its session is
\* emitted exactly once and in append order
C24_EachEventOnce == []C24_EmittedIsPrefix /\ [][C24_PollEmitsSuffix]_vars

\* the step part of C25: a poll that finds the session key absent closes the
\* stream and emits nothing, a poll that finds it leaves the stream open, the
\* abort of an open stream closes it, and a closed stream stays closed, polls
\* no more and emits no more
C25_CloseStep ==
  \A s \in Streams :
    /\ (Poll(s) /\ stream[s].sessionId \notin DOMAIN progressMap) =>
         stream'[s].pc = "closed" /\ stream'[s].sent = stream[s].sent
    /\ (Poll(s) /\ stream[s].sessionId \in DOMAIN progressMap) => stream'[s].pc = "open"
    /\ Abort(s) => stream'[s].pc = "closed"
    /\ stream[s].pc = "closed" =>
         /\ ~Poll(s)
         /\ stream'[s].pc = "closed"
         /\ stream'[s].sent = stream[s].sent
         /\ stream'[s].lastSentCount = stream[s].lastSentCount

\* the progress part of C25: an open stream whose session key is absent is
\* closed by its next poll (unless the key is back in the map by then)
C25_ClosesWhenGone ==
  \A s \in Streams :
    (stream[s].pc = "open" /\ stream[s].sessionId \notin DOMAIN progressMap)
      ~> (stream[s].pc = "closed" \/ stream[s].sessionId \in DOMAIN progressMap)

C27_InvalidInputRejected ==
  /\ (op = "fetch" /\ fpc # "start" /\ startDay > endDay) =>
       /\ fpc = "invalid"
       /\ requests = 0
       /\ n2pToken = "null"
       /\ dailyResults = <<>>
  /\ op = "stage3" =>
       /\ \A p \in Posts :
            (post[p].pc # "start" /\ post[p].input.names # "safe") =>
              /\ post[p].response = "invalid"
              /\ post[p].sessionId = 0
              /\ post[p].completed = 0
              /\ post[p].timer = "none"
       /\ Cardinality(DOMAIN progressMap)
            <= Cardinality({p \in Posts : post[p].pc # "start" /\ post[p].input.names = "safe"})

C27_Witness ==
  /\ op = "fetch"
  /\ startDay > endDay
  /\ fpc = "invalid"
  /\ requests = 0

\* C28: a call-log request answered with 401 does not end the day: the cached
\* token is dropped and a new token is requested, the page and the day staying
\* the same for the retry
C28_RefreshOn401 ==
  [][\A a \in (IF op = "fetch" /\ fpc = "page"
               THEN PageAnswers(pageSize, page, IsoDate(dates[day])) ELSE {}) :
       (a.status = 401 /\ PageResponse(a)) =>
         /\ fpc' = "token"
         /\ day' = day /\ page' = page
         /\ dailyResults' = dailyResults]_vars

\* the step part of C30: the loop goes from one date to the next only out of
\* the inter-day delay
C30_DelayBeforeNextDay ==
  (op = "fetch" /\ day >= 1 /\ day' = day + 1) => fpc = "delay"

\* C30: between the last request of a day and the first request of the next
\* day the inter-day delay elapses, whether the day succeeded or failed, and
\* no delay follows the last day
C30_InterDayDelay ==
  /\ [](op = "fetch" /\ fpc = "delay" => day < Len(dates))
  /\ [][C30_DelayBeforeNextDay]_vars

\* C32: no worker of downloadBatch writes the output file of another worker
\* of its chunk: when a worker's body has been read and its file is written,
\* no settled worker of the same chunk has returned a DownloadResult for that
\* same file
C32_OwnOutputFile ==
  [][\A w \in DOMAIN dl, r \in BodyResponses :
       (BodyResponse(w, r) /\ BodyRead(r)) =>
         ~\E v \in DOMAIN dl \ {w} :
            /\ ChunkOf(v, EffectiveBatchSize(batchSize))
                 = ChunkOf(w, EffectiveBatchSize(batchSize))
            /\ dl[v] = "done"
            /\ calls[v] = calls[w]
            /\ \E e \in emitted : e.call_id = calls[v]]_vars

\* the state part of C37: a wait has sent at least one status request while
\* it is on, each request after the first at least one poll interval after
\* the one before, and it sleeps only after answers that are neither
\* completed nor error; outside the wait no status request is counted
C37_RequestsApart ==
  op = "transcribe" =>
    \A w \in DOMAIN tr :
      /\ tr[w] \in {"poll", "sleep"} =>
           /\ statusRequests[w] >= 1
           /\ elapsed[w] >= (statusRequests[w] - 1) * PollInterval
      /\ tr[w] = "sleep" => lastStatus[w] \notin {"completed", "error"}
      /\ tr[w] \notin {"poll", "sleep"} => statusRequests[w] = 0

\* the step part of C37: the answer to the one request that is out, if its
\* status is completed or error, ends the wait in the same step with that
\* result and without another request; every other status sends the wait to
\* sleep; a request is sent only when the wait starts or when the poll
\* interval has passed after an answer
C37_AnswerStep ==
  \A w \in DOMAIN tr :
    /\ (tr[w] = "poll" /\ tr'[w] # "poll") =>
         IF lastStatus'[w] \in {"completed", "error"}
         THEN /\ tr'[w] = "done"
              /\ trValue'[w].promise = "fulfilled"
              /\ trValue'[w].success = (lastStatus'[w] = "completed")
         ELSE \/ lastStatus'[w] = "notOk" /\ tr'[w] = "done"
              \/ tr'[w] = "sleep" /\ statusRequests'[w] = statusRequests[w]
    /\ statusRequests'[w] > statusRequests[w] =>
         /\ statusRequests'[w] = statusRequests[w] + 1
         /\ tr'[w] = "poll"
         /\ \/ tr[w] = "create" /\ statusRequests[w] = 0
            \/ tr[w] = "sleep" /\ elapsed'[w] = elapsed[w] + PollInterval

\* C37: waitForTranscription sends its status requests one at a time, a poll
\* interval apart, and returns the first result whose status is completed or
\* error without sending another request: k requests when the k-th answer is
\* the first such one
C37_PollsUntilTerminal == []C37_RequestsApart /\ [][C37_AnswerStep]_vars

\* one wait has returned on a completed answer while another has its second
\* request out after a first answer that was not terminal
C37_Witness ==
  /\ op = "transcribe"
  /\ \E w, v \in DOMAIN tr :
       /\ tr[w] = "done" /\ lastStatus[w] = "completed" /\ trValue[w].success
       /\ tr[v] = "poll" /\ statusRequests[v] = 2 /\ lastStatus[v] = "processing"

\* C33: the file name downloadAudio builds has only characters of
\* [A-Za-z0-9._-], no path separator and no two dots in a row, and its broker
\* prefix has at most 3 characters and is unk when the sanitized broker_id is
\* empty
C33_SafeFileName ==
  (op = "filename" /\ ppc # "start") =>
    LET name == output.filename
    IN /\ \A k \in 1..Len(name) :
            name[k] \in {"a", "k", "n", "o", "u", "v", "w", ".", "_", "-"}
       /\ \A k \in 1..Len(name) : name[k] \notin {"/", "\\"}
       /\ \A k \in 1..(Len(name) - 1) : ~(name[k] = "." /\ name[k + 1] = ".")
       /\ Len(output.safeBrokerId) \in 1..3
       /\ SanitizeSegment(input.broker_id) = <<>> => output.safeBrokerId = <<"u", "n", "k">>
       /\ name = output.safeBrokerId \o <<"_">> \o output.safeCallId \o DotWav

\* C39: the name of an audio file written as <brokerPrefix>_<callId>.wav is
\* read back by the transcription stage as that brokerPrefix and that callId,
\* and the transcript file has the stem of the audio file
C39_NamesRoundTrip ==
  (op = "filename" /\ ppc = "twice") =>
    /\ output2.broker_id = output.safeBrokerId
    /\ output2.call_id = output.safeCallId
    /\ ReplaceFirst(output2.transcriptFile, <<".", "t", "x", "t">>)
         = output.safeBrokerId \o <<"_">> \o output.safeCallId

\* C35: extractRelevantData gives a raw call whose caller name is "John Doe
\* Smith" the broker_id "joh", and a raw call without caller name whose
\* username is "12345@domain" the broker_id "12345"
C35_BrokerIdExamples ==
  (op = "extract" /\ ppc = "once") =>
    /\ input.from.name = JohnDoeSmith => output.broker_id = <<"j", "o", "h">>
    /\ (input.from.name = <<>> /\ input.from.username = ExtensionAtDomain)
         => output.broker_id = <<"1", "2", "3", "4", "5">>

\* the pages of the current day's log after which no page is to follow: no
\* next cursor, or fewer than pageSize entries
LastPages == {k \in 1..Len(pageLog) : ~pageLog[k].next \/ pageLog[k].size < pageSize}

\* C36: the pages of a day are requested one after the other, page k + 1 being
\* the request that follows the k answered pages; while a page is requested
\* no answered page of the day was without a next cursor or shorter than
\* pageSize, and a day that ends with success ends right after the first
\* such page
C36_PagesUntilLast ==
  (op = "fetch" /\ day >= 1) =>
    /\ page = Len(pageLog) + 1
    /\ LastPages \subseteq {Len(pageLog)}
    /\ fpc \in {"token", "page"} => LastPages = {}
    /\ DaySucceeded => LastPages = {Len(pageLog)} /\ Len(pageLog) >= 1

C36_Witness ==
  /\ op = "fetch" /\ DaySucceeded /\ day = 2
  /\ Len(pageLog) = 3
  /\ ~pageLog[3].next /\ pageLog[3].size = pageSize

\* totalCalls of the response
TotalCalls == Len(allCalls)

RECURSIVE SumCallCount(_)
SumCallCount(rs) ==
  IF rs = <<>> THEN 0 ELSE rs[1].callCount + SumCallCount(Tail(rs))

RECURSIVE CallsOfSuccessDays(_)
CallsOfSuccessDays(rs) ==
  IF rs = <<>> THEN <<>>
  ELSE (IF rs[1].status = "success" THEN rs[1].calls ELSE <<>>)
       \o CallsOfSuccessDays(Tail(rs))

\* C38: in the response of a fetch, totalCalls is the sum of callCount over
\* the per-day entries, the call list is the calls of the days marked
\* success, one day after the other, and no call of a day marked error is in
\* the list or counted
C38_TotalsMatchDays ==
  (op = "fetch" /\ fpc = "done") =>
    /\ TotalCalls = SumCallCount(dailyResults)
    /\ allCalls = CallsOfSuccessDays(dailyResults)
    /\ \A k \in 1..Len(dailyResults) :
         dailyResults[k].status = "error" =>
           /\ dailyResults[k].callCount = 0
           /\ \A j \in 1..Len(allCalls) : allCalls[j].date # dailyResults[k].date

\* day 1 gave calls, day 2 failed after a page with a call was answered
C38_Witness ==
  /\ op = "fetch" /\ fpc = "done"
  /\ Len(dailyResults) = 2
  /\ dailyResults[1].status = "success" /\ dailyResults[1].callCount >= 1
  /\ dailyResults[2].status = "error"
  /\ dateCalls # <<>>

\* C31: transcribeBatch called with a finite file list and any concurrency
\* limit of the request body, every per-file transcription settling,
\* eventually returns a result for each file
C31_BatchReturns ==
  <>(op = "transcribe" => tpc = "done" /\ Len(results) = Len(files))

\* the text between the brackets of a line's timestamp
Bare(label) == SubSeq(label, 2, Len(label) - 1)

\* the segments of a string between its colons
RECURSIVE Segments(_)
Segments(str) ==
  IF \A k \in 1..Len(str) : str[k] # ":" THEN <<str>>
  ELSE LET c == CHOOSE k \in 1..Len(str) : str[k] = ":" /\ \A j \in 1..(k - 1) : str[j] # ":"
       IN <<SubSeq(str, 1, c - 1)>> \o Segments(SubSeq(str, c + 1, Len(str)))

\* the number a string of decimal digits denotes
RECURSIVE Value(_)
Value(str) ==
  IF str = <<>> THEN 0
  ELSE 10 * Value(SubSeq(str, 1, Len(str) - 1))
       + (CHOOSE d \in 0..9 : DigitChars[d + 1] = str[Len(str)])

\* C34: the timestamp of an utterance starting at s milliseconds is in
\* brackets, reads m:ss when floor(s/1000) is below one hour and h:mm:ss
\* otherwise, the seconds in two digits, the minutes in two digits only after
\* an hour segment, the first segment without padding, and denotes
\* floor(s/1000) seconds; 3,661,000 gives [1:01:01] and 0 gives [0:00]
C34_TimestampFormat ==
  /\ (op = "format" /\ ppc = "once") =>
       \A k \in 1..Len(input.utterances) :
         LET total == input.utterances[k].start \div 1000
             label == output[k].timestamp
             segs  == Segments(Bare(label))
             n     == Len(segs)
         IN /\ label[1] = "[" /\ label[Len(label)] = "]"
            /\ n = IF total < 3600 THEN 2 ELSE 3
            /\ Len(segs[n]) = 2 /\ Value(segs[n]) < 60
            /\ n = 3 => Len(segs[2]) = 2 /\ Value(segs[2]) < 60
            /\ segs[1] = NumberToString(Value(segs[1]))
            /\ total = IF n = 2 THEN 60 * Value(segs[1]) + Value(segs[2])
                       ELSE 3600 * Value(segs[1]) + 60 * Value(segs[2]) + Value(segs[3])
  /\ Timestamp(3661000) = <<"1", ":", "0", "1", ":", "0", "1">>
  /\ Timestamp(0) = <<"0", ":", "0", "0">>

C34_Witness ==
  /\ op = "format" /\ ppc = "once"
  /\ Len(input.utterances) = 1
  /\ input.utterances[1].start = 3661999
  /\ output[1].timestamp = <<"[", "1", ":", "0", "1", ":", "0", "1", "]">>

\* C40: a stream's controller is closed at most once, and once it has been
\* closed the stream's poll timer is cleared, whichever of the two closing
\* events (the session key is gone at a poll, the request is aborted) comes
\* first and also when both come
C40_ClosedAtMostOnce ==
  op = "stage3" =>
    \A s \in Streams :
      /\ stream[s].closes <= 1
      /\ stream[s].closes >= 1 => stream[s].pc = "closed" /\ stream[s].due = 0

====
